---- MODULE Spec2Model ----
(***************************************************************************)
(* Session / limit arbitration engine and effective-time accounting of the *)
(* video-time-tracker extension: src/utils/storage.js (second generation,  *)
(* lines 440-1475), src/utils/sessionManager.js and the alarm and message  *)
(* handlers of src/background.js.                                          *)
(*                                                                         *)
(* Time is the millisecond clock Date.now().  Durations reported by the    *)
(* detectors and the limits of a category are whole effective seconds.     *)
(***************************************************************************)
EXTENDS Integers, Sequences, FiniteSets, TLC

(***************************************************************************)
(* Bounds of the model.                                                    *)
(***************************************************************************)
MaxReport == 2      \* a report carries 1..MaxReport effective seconds
MaxSessions == 2    \* START_SESSION is not sent once a day holds this many records
MaxJumps == 1       \* clock marks (midnight, noon) the clock moves on to
MaxTotal == 4       \* no report is sent once a day's merged total reached this
MaxFine == 4        \* steps of FineStepMs the clock makes after start-up
MaxInFlight == 2    \* session handlers suspended at one time
MaxInFlightTotal == 2   \* no report joins them once this many seconds are accepted
MaxDays == 33       \* days the clock moves on in the runs over the retention window
MaxFirstDays == 2   \* days at the start of a retention window the clock stops at
MaxDayRecords == 2  \* no report is sent once this many earlier days hold a record
MaxTabSteps == 7    \* steps of TabStepMs the clock makes while tabs take turns
MaxDomainLimit == 2 \* SET_DOMAIN_LIMIT carries a limit of 1..MaxDomainLimit seconds

(***************************************************************************)
(* Program constants.                                                      *)
(***************************************************************************)
BATCH_WRITE_INTERVAL == 10000
CacheTtlMs == 5000
MsPerSecond == 1000
MsPerMinute == 60000
MinutesPerHour == 60
DayMs == 86400000
WarningSeconds == 60
DATA_RETENTION_DAYS == 31

\* null / undefined of the source
Null == -1

\* JavaScript truthiness of a number-or-null value
Truthy(x) == x # Null /\ x # 0

\* { ...a, ...b }
Spread(a, b) ==
    [k \in (DOMAIN a) \cup (DOMAIN b) |-> IF k \in DOMAIN b THEN b[k] ELSE a[k]]

Max(a, b) == IF a >= b THEN a ELSE b

\* Math.ceil(n / d) and Math.floor(n / d) for d > 0
FloorDiv(n, d) == n \div d

\* The quotient with its fraction dropped where Math.ceil counts it.
CeilDivTruncated(n, d) == n \div d

CeilDiv(n, d) == -((-n) \div d)

(***************************************************************************)
(* The clock is sampled at marks half a day apart (12:00 and 00:00); any   *)
(* number of handlers may run at one instant.                              *)
(***************************************************************************)
HalfDayMs == DayMs \div 2
StartNow == HalfDayMs

CategoryKeys == {"video"}

Reports == 1..MaxReport

(***************************************************************************)
(* Category configurations (chrome.storage.local 'categories').  A time of *)
(* day "HH:MM" is the pair <<HH, MM>>.                                     *)
(***************************************************************************)
Overnight == [start |-> <<22, 0>>, end |-> <<8, 0>>]
Daytime == [start |-> <<9, 0>>, end |-> <<13, 0>>]

Category(en, dl, sd, sc, rd, fp) ==
    [enabled |-> en, dailyLimit |-> dl, sessionDuration |-> sd,
     sessionCount |-> sc, restDuration |-> rd, forbiddenPeriods |-> fp]

CategoryConfigs ==
    { Category(TRUE, 3, 2, 1, 1, << >>),
      Category(TRUE, 4, 2, 1, 0, << >>),
      Category(TRUE, 3, Null, 1, Null, <<Daytime>>),
      Category(TRUE, Null, 2, 1, 50000, <<Overnight>>),
      Category(FALSE, 3, 2, 1, 1, << >>) }

VARIABLES
    categories,     \* chrome.storage.local 'categories': key -> Category
    usage,          \* chrome.storage.local 'usage': dateKey -> key -> DailyUsage
    activeState,    \* chrome.storage.local 'activeState': key -> ActiveState
    storageCache,   \* the module-level cache and pending map of storage.js
    now,            \* Date.now()
    lastDateKey,    \* background.js: the day of the last rollover
    alarmsFired,    \* midnightReset alarms delivered so far, counted from day 0
    last,           \* the handler call made by the last step, with its response
    calls,          \* the handler calls in flight: the place each one is suspended at
    accepted,       \* key -> the seconds addCategoryTime was called with, summed
    domainLimits,   \* chrome.storage.local 'domainLimits': domain -> DomainLimit
    activeTabsPerCategory   \* background.js: key -> the tab whose reports count

vars == <<categories, usage, activeState, storageCache, now, lastDateKey,
          alarmsFired, last, calls, accepted, domainLimits,
          activeTabsPerCategory>>

\* The stores of the domain limits and of the tab coordination.
coordination == <<domainLimits, activeTabsPerCategory>>

(***************************************************************************)
(* Calendar functions of the clock.                                        *)
(***************************************************************************)
DateKeyOf(t) == t \div DayMs

getTodayKey == DateKeyOf(now)

getYesterdayKey == getTodayKey - 1

parseTimeToMinutes(timeStr) == timeStr[1] * MinutesPerHour + timeStr[2]

getCurrentTimeMinutes == (now % DayMs) \div MsPerMinute

\* InPeriod with the end of the period taken as blocked.
InPeriodInclusiveEnd(period, currentMinutes) ==
    LET start == parseTimeToMinutes(period.start)
        end == parseTimeToMinutes(period.end)
    IN IF start > end
       THEN currentMinutes >= start \/ currentMinutes <= end
       ELSE currentMinutes >= start /\ currentMinutes <= end

\* The test isInForbiddenPeriod makes of one period.
InPeriod(period, currentMinutes) ==
    LET start == parseTimeToMinutes(period.start)
        end == parseTimeToMinutes(period.end)
    IN IF start > end
       THEN currentMinutes >= start \/ currentMinutes < end
       ELSE currentMinutes >= start /\ currentMinutes < end

isInForbiddenPeriod(forbiddenPeriods) ==
    \E i \in 1..Len(forbiddenPeriods) :
        InPeriod(forbiddenPeriods[i], getCurrentTimeMinutes)

RECURSIVE NextAllowedFrom(_, _)
NextAllowedFrom(forbiddenPeriods, i) ==
    IF i > Len(forbiddenPeriods) THEN Null
    ELSE LET start == parseTimeToMinutes(forbiddenPeriods[i].start)
             end == parseTimeToMinutes(forbiddenPeriods[i].end)
             midnight == getTodayKey * DayMs
         IN IF InPeriod(forbiddenPeriods[i], getCurrentTimeMinutes)
            THEN IF start > end /\ getCurrentTimeMinutes >= start
                 THEN midnight + DayMs + end * MsPerMinute
                 ELSE midnight + end * MsPerMinute
            ELSE NextAllowedFrom(forbiddenPeriods, i + 1)

getNextAllowedTime(forbiddenPeriods) == NextAllowedFrom(forbiddenPeriods, 1)

getTomorrowMidnight == (getTodayKey + 1) * DayMs

(***************************************************************************)
(* Stored values.                                                          *)
(***************************************************************************)
NoPending == [k \in {} |-> 0]

\* byDomain is read with `|| {}`: a record without it and one with an empty
\* one are the same here.
EmptyUsage == [totalTime |-> 0, sessions |-> << >>, byDomain |-> NoPending]

EmptyDay == [k \in CategoryKeys |-> EmptyUsage]

DefaultActiveState ==
    [inSession |-> FALSE, sessionStart |-> Null, sessionEffectiveTime |-> 0,
     inRest |-> FALSE, restEnd |-> Null]

\* usage[dateKey] || {}
DayOf(u, dateKey) == IF dateKey \in DOMAIN u THEN u[dateKey] ELSE EmptyDay

\* if (!usage[dateKey]) usage[dateKey] = {}
WithDay(u, dateKey) ==
    [d \in (DOMAIN u) \cup {dateKey} |-> DayOf(u, d)]

\* map.get(key) || 0
PendingOf(pending, key) == IF key \in DOMAIN pending THEN pending[key] ELSE 0

\* storageCache.usage: the copy of the usage map kept in memory.  Its readers
\* (addCategoryTime, addDomainTime) read the totals only, and so the copy is
\* kept without the session lists.
CacheOf(u) ==
    [d \in DOMAIN u |->
        [k \in DOMAIN u[d] |-> [totalTime |-> u[d][k].totalTime,
                                 byDomain |-> u[d][k].byDomain]]]

NoCachedUsage == CacheOf([d \in {} |-> EmptyDay])

\* The state a handler reads and writes.
World == [usage |-> usage, activeState |-> activeState, cache |-> storageCache]

HasCategory(categoryKey) == categoryKey \in DOMAIN categories

(***************************************************************************)
(* storage.js: batched writes.                                             *)
(***************************************************************************)

\* pendingTimeUpdates.size === 0 && pendingDomainUpdates.size === 0
NothingPending(cache) ==
    DOMAIN cache.pendingTimeUpdates = {} /\ DOMAIN cache.pendingDomainUpdates = {}

\* The second loop of flushPendingTimeUpdates, for one category: the pending
\* entries "categoryKey:domain" added to byDomain.
FlushDomains(byDomain, k, pendingDomain) ==
    LET domains == {kd[2] : kd \in {e \in DOMAIN pendingDomain : e[1] = k}}
    IN [dom \in (DOMAIN byDomain) \cup domains |->
           PendingOf(byDomain, dom) + PendingOf(pendingDomain, <<k, dom>>)]

\* The loops of flushPendingTimeUpdates: the read usage with every pending
\* entry added to today's record.
FlushMerge(u, pending, pendingDomain) ==
    [d \in (DOMAIN u) \cup {getTodayKey} |->
        IF d = getTodayKey
        THEN [k \in DOMAIN DayOf(u, d) |->
                 [totalTime |-> DayOf(u, d)[k].totalTime + PendingOf(pending, k),
                  sessions |-> DayOf(u, d)[k].sessions,
                  byDomain |-> FlushDomains(DayOf(u, d)[k].byDomain, k,
                                            pendingDomain)]]
        ELSE u[d]]

\* flushPendingTimeUpdates with the pending entries left in the map.
flushPendingTimeUpdatesKeepingPending(w) ==
    IF NothingPending(w.cache) THEN w
    ELSE LET flushed == FlushMerge(w.usage, w.cache.pendingTimeUpdates,
                                   w.cache.pendingDomainUpdates)
         IN [w EXCEPT !.usage = flushed,
                      !.cache = [usage |-> CacheOf(flushed), usageLoaded |-> TRUE,
                                 lastUsageWrite |-> now,
                                 pendingTimeUpdates |-> w.cache.pendingTimeUpdates,
                                 pendingDomainUpdates |-> w.cache.pendingDomainUpdates]]

flushPendingTimeUpdates(w) ==
    IF NothingPending(w.cache) THEN w
    ELSE LET flushed == FlushMerge(w.usage, w.cache.pendingTimeUpdates,
                                   w.cache.pendingDomainUpdates)
         IN [w EXCEPT !.usage = flushed,
                      !.cache = [usage |-> CacheOf(flushed), usageLoaded |-> TRUE,
                                 lastUsageWrite |-> now,
                                 pendingTimeUpdates |-> NoPending,
                                 pendingDomainUpdates |-> NoPending]]

\* !storageCache.usage || Date.now() - storageCache.lastUsageWrite > 5000
CacheStale(w) ==
    ~w.cache.usageLoaded \/ now > w.cache.lastUsageWrite + CacheTtlMs

\* Leaves the usage it returns in storageCache.usage.
getCachedUsage(w) ==
    IF CacheStale(w)
    THEN [w EXCEPT !.cache.usage = CacheOf(w.usage), !.cache.usageLoaded = TRUE]
    ELSE w

getTodayUsage(w) == DayOf(w.usage, getTodayKey)

\* committed + pending
getCategoryUsage(w, categoryKey) ==
    LET baseUsage == getTodayUsage(w)[categoryKey]
        pendingTime == PendingOf(w.cache.pendingTimeUpdates, categoryKey)
    IN [totalTime |-> baseUsage.totalTime + pendingTime,
        sessions |-> baseUsage.sessions]

\* totalWithPending >= dailyLimit * 0.95
\* The flush condition met only above the limit itself.
NearLimitOver(totalWithPending, dailyLimit) ==
    Truthy(dailyLimit) /\ totalWithPending > dailyLimit

NearLimit(totalWithPending, dailyLimit) ==
    Truthy(dailyLimit) /\ totalWithPending * 100 >= dailyLimit * 95

\* The part of addCategoryTime before its first await: the pending entry grows.
AddPending(w, categoryKey, seconds) ==
    LET pending == w.cache.pendingTimeUpdates
    IN [w EXCEPT !.cache.pendingTimeUpdates =
           [k \in (DOMAIN pending) \cup {categoryKey} |->
               IF k = categoryKey
               THEN PendingOf(pending, k) + seconds
               ELSE pending[k]]]

\* usage[todayKey][categoryKey].totalTime + pendingTime, of the cached usage
TotalWithPending(w, categoryKey) ==
    w.cache.usage[getTodayKey][categoryKey].totalTime
        + PendingOf(w.cache.pendingTimeUpdates, categoryKey)

addCategoryTime(w, categoryKey, seconds) ==
    LET w1 == AddPending(w, categoryKey, seconds)
        w2 == getCachedUsage(w1)
        w3 == [w2 EXCEPT !.cache.usage = CacheOf(WithDay(@, getTodayKey))]
        totalWithPending == TotalWithPending(w3, categoryKey)
        near == HasCategory(categoryKey)
                /\ NearLimit(totalWithPending, categories[categoryKey].dailyLimit)
    IN [w |-> IF near THEN flushPendingTimeUpdates(w3) ELSE w3,
        r |-> [totalTime |-> totalWithPending]]

(***************************************************************************)
(* storage.js: session records and ActiveState.                            *)
(***************************************************************************)
startCategorySession(w, categoryKey) ==
    LET session == [start |-> now, end |-> Null, duration |-> 0]
    IN [w EXCEPT !.usage =
           [d \in (DOMAIN w.usage) \cup {getTodayKey} |->
               IF d = getTodayKey
               THEN [DayOf(w.usage, d) EXCEPT ![categoryKey].sessions =
                        Append(@, session)]
               ELSE w.usage[d]]]

\* lastSession && !lastSession.end, of the record of dateKey
LastSessionOpen(w, categoryKey, dateKey) ==
    LET sessions == DayOf(w.usage, dateKey)[categoryKey].sessions
    IN /\ dateKey \in DOMAIN w.usage
       /\ Len(sessions) > 0
       /\ ~Truthy(sessions[Len(sessions)].end)

\* The shared body of endCategorySession and endCategorySessionForDate.
CloseLastSession(w, categoryKey, dateKey) ==
    LET n == Len(DayOf(w.usage, dateKey)[categoryKey].sessions)
    IN IF LastSessionOpen(w, categoryKey, dateKey)
       THEN [w EXCEPT !.usage[dateKey][categoryKey].sessions[n] =
                [start |-> @.start, end |-> now,
                 duration |-> FloorDiv(now - @.start, MsPerSecond)]]
       ELSE w

endCategorySession(w, categoryKey) == CloseLastSession(w, categoryKey, getTodayKey)

endCategorySessionForDate(w, categoryKey, dateKey) ==
    CloseLastSession(w, categoryKey, dateKey)

getCategoryActiveState(w, categoryKey) == w.activeState[categoryKey]

updateCategoryActiveState(w, categoryKey, newState) ==
    [w EXCEPT !.activeState[categoryKey] = Spread(@, newState)]

clearActiveStates(w) ==
    [w EXCEPT !.activeState = [k \in CategoryKeys |-> DefaultActiveState]]

RECURSIVE ResetSessions(_, _)
\* The loop of performDailyReset over the entries of activeState.
ResetSessions(w, keys) ==
    IF keys = {} THEN w
    ELSE LET categoryKey == CHOOSE k \in keys : TRUE
             state == w.activeState[categoryKey]
             w1 == IF state.inSession /\ Truthy(state.sessionStart)
                   THEN endCategorySessionForDate(w, categoryKey, getYesterdayKey)
                   ELSE w
         IN ResetSessions(w1, keys \ {categoryKey})

performDailyReset(w) ==
    LET w1 == flushPendingTimeUpdates(w)
        w2 == ResetSessions(w1, CategoryKeys)
        w3 == clearActiveStates(w2)
    IN [w3 EXCEPT !.cache.usage = NoCachedUsage,
                  !.cache.usageLoaded = FALSE]

(***************************************************************************)
(* sessionManager.js.  A handler maps the world to the world it leaves and *)
(* the object it returns (r); the category echo and the display strings of *)
(* the returned objects are left out.                                      *)
(***************************************************************************)
CompletedSessions(sessions) ==
    Cardinality({i \in 1..Len(sessions) : Truthy(sessions[i].end)})

\* DenialReason with the rest check made before the forbidden-period check.
DenialReasonRestFirst(category, usageNow, state) ==
    LET completedSessions == CompletedSessions(usageNow.sessions)
        totalSessionsUsed == completedSessions + (IF state.inSession THEN 1 ELSE 0)
    IN IF state.inRest /\ Truthy(state.restEnd) /\ now < state.restEnd
       THEN "rest_period"
       ELSE IF isInForbiddenPeriod(category.forbiddenPeriods)
       THEN "forbidden_period"
       ELSE IF Truthy(category.dailyLimit) /\ usageNow.totalTime >= category.dailyLimit
       THEN "daily_limit"
       ELSE IF Truthy(category.sessionCount)
               /\ totalSessionsUsed >= category.sessionCount /\ ~state.inSession
       THEN "sessions_exhausted"
       ELSE "none"

\* DenialReason with the session count compared by > instead of >=.
DenialReasonCountStrict(category, usageNow, state) ==
    LET completedSessions == CompletedSessions(usageNow.sessions)
        totalSessionsUsed == completedSessions + (IF state.inSession THEN 1 ELSE 0)
    IN IF isInForbiddenPeriod(category.forbiddenPeriods)
       THEN "forbidden_period"
       ELSE IF state.inRest /\ Truthy(state.restEnd) /\ now < state.restEnd
       THEN "rest_period"
       ELSE IF Truthy(category.dailyLimit) /\ usageNow.totalTime >= category.dailyLimit
       THEN "daily_limit"
       ELSE IF Truthy(category.sessionCount)
               /\ totalSessionsUsed > category.sessionCount /\ ~state.inSession
       THEN "sessions_exhausted"
       ELSE "none"

\* Check 1 .. Check 4 of canAccessCategory, in the order of the source: the
\* reason of the first check that denies, "none" when every check passes.
DenialReason(category, usageNow, state) ==
    LET completedSessions == CompletedSessions(usageNow.sessions)
        totalSessionsUsed == completedSessions + (IF state.inSession THEN 1 ELSE 0)
    IN IF isInForbiddenPeriod(category.forbiddenPeriods)
       THEN "forbidden_period"
       ELSE IF state.inRest /\ Truthy(state.restEnd) /\ now < state.restEnd
       THEN "rest_period"
       ELSE IF Truthy(category.dailyLimit) /\ usageNow.totalTime >= category.dailyLimit
       THEN "daily_limit"
       ELSE IF Truthy(category.sessionCount)
               /\ totalSessionsUsed >= category.sessionCount /\ ~state.inSession
       THEN "sessions_exhausted"
       ELSE "none"

\* The object canAccessCategory returns.
AccessDecision(category, usageNow, state) ==
    LET completedSessions == CompletedSessions(usageNow.sessions)
        totalSessionsUsed == completedSessions + (IF state.inSession THEN 1 ELSE 0)
        reason == DenialReason(category, usageNow, state)
        sessionRemaining ==
            IF Truthy(category.sessionDuration) /\ state.inSession
            THEN Max(0, category.sessionDuration - state.sessionEffectiveTime)
            ELSE IF Truthy(category.sessionDuration) THEN category.sessionDuration
            ELSE Null
    IN IF reason = "forbidden_period"
       THEN [allowed |-> FALSE, reason |-> "forbidden_period",
             nextAvailable |-> getNextAllowedTime(category.forbiddenPeriods)]
       ELSE IF reason = "rest_period"
       THEN [allowed |-> FALSE, reason |-> "rest_period",
             restRemaining |-> CeilDiv(state.restEnd - now, MsPerSecond),
             nextAvailable |-> state.restEnd]
       ELSE IF reason = "daily_limit"
       THEN [allowed |-> FALSE, reason |-> "daily_limit",
             nextAvailable |-> getTomorrowMidnight,
             totalTime |-> usageNow.totalTime, dailyLimit |-> category.dailyLimit]
       ELSE IF reason = "sessions_exhausted"
       THEN [allowed |-> FALSE, reason |-> "sessions_exhausted",
             nextAvailable |-> getTomorrowMidnight,
             sessionsUsed |-> completedSessions,
             sessionsTotal |-> category.sessionCount]
       ELSE [allowed |-> TRUE, hasLimits |-> TRUE, inSession |-> state.inSession,
             sessionRemaining |-> sessionRemaining,
             dailyRemaining |-> IF Truthy(category.dailyLimit)
                                THEN category.dailyLimit - usageNow.totalTime
                                ELSE Null,
             sessionsRemaining |-> IF Truthy(category.sessionCount)
                                   THEN category.sessionCount - totalSessionsUsed
                                   ELSE Null,
             totalTime |-> usageNow.totalTime,
             isWarning |-> sessionRemaining # Null /\ sessionRemaining <= WarningSeconds]

\* ClearsRest without the comparison of the clock with restEnd.
ClearsRestEarly(category, state) ==
    /\ ~isInForbiddenPeriod(category.forbiddenPeriods)
    /\ state.inRest /\ Truthy(state.restEnd)

\* An expired rest is cleared once the forbidden-period check has passed.
ClearsRest(category, state) ==
    /\ ~isInForbiddenPeriod(category.forbiddenPeriods)
    /\ state.inRest /\ Truthy(state.restEnd) /\ now >= state.restEnd

canAccessCategory(w, categoryKey) ==
    IF ~HasCategory(categoryKey) \/ ~categories[categoryKey].enabled
    THEN [w |-> w, r |-> [allowed |-> TRUE, hasLimits |-> FALSE]]
    ELSE LET category == categories[categoryKey]
             usageNow == getCategoryUsage(w, categoryKey)
             state == getCategoryActiveState(w, categoryKey)
         IN [w |-> IF ClearsRest(category, state)
                   THEN updateCategoryActiveState(w, categoryKey,
                            [inRest |-> FALSE, restEnd |-> Null])
                   ELSE w,
             r |-> AccessDecision(category, usageNow, state)]

\* startSession without the test of activeState.inSession.
startSessionAnew(w, categoryKey) ==
    LET access == canAccessCategory(w, categoryKey)
    IN IF ~access.r.allowed
       THEN [w |-> access.w, r |-> Spread([success |-> FALSE], access.r)]
       ELSE [w |-> updateCategoryActiveState(
                       startCategorySession(access.w, categoryKey), categoryKey,
                       [inSession |-> TRUE, sessionStart |-> now,
                        sessionEffectiveTime |-> 0, inRest |-> FALSE,
                        restEnd |-> Null]),
             r |-> [success |-> TRUE, sessionStart |-> now]]

startSession(w, categoryKey) ==
    LET access == canAccessCategory(w, categoryKey)
        state == getCategoryActiveState(access.w, categoryKey)
    IN IF ~access.r.allowed
       THEN [w |-> access.w, r |-> Spread([success |-> FALSE], access.r)]
       ELSE IF state.inSession
       THEN [w |-> access.w, r |-> [success |-> TRUE, alreadyActive |-> TRUE]]
       ELSE [w |-> updateCategoryActiveState(
                       startCategorySession(access.w, categoryKey), categoryKey,
                       [inSession |-> TRUE, sessionStart |-> now,
                        sessionEffectiveTime |-> 0, inRest |-> FALSE,
                        restEnd |-> Null]),
             r |-> [success |-> TRUE, sessionStart |-> now]]

\* triggerRest && category?.restDuration
RestTriggered(categoryKey, triggerRest) ==
    triggerRest /\ HasCategory(categoryKey)
    /\ Truthy(categories[categoryKey].restDuration)

\* SessionUpdates with the rest started without the session being ended.
SessionUpdatesRestOnly(categoryKey, triggerRest) ==
    LET base == [inSession |-> FALSE, sessionStart |-> Null]
        restEnd == now + categories[categoryKey].restDuration * MsPerSecond
    IN IF RestTriggered(categoryKey, triggerRest)
       THEN [inRest |-> TRUE, restEnd |-> restEnd]
       ELSE base

\* The updates endSession makes to the ActiveState.
SessionUpdates(categoryKey, triggerRest) ==
    LET base == [inSession |-> FALSE, sessionStart |-> Null]
        restEnd == now + categories[categoryKey].restDuration * MsPerSecond
    IN IF RestTriggered(categoryKey, triggerRest)
       THEN Spread(base, [inRest |-> TRUE, restEnd |-> restEnd])
       ELSE base

endSession(w, categoryKey, triggerRest) ==
    LET w1 == endCategorySession(w, categoryKey)
        restEnd == now + categories[categoryKey].restDuration * MsPerSecond
        updates == SessionUpdates(categoryKey, triggerRest)
    IN [w |-> updateCategoryActiveState(w1, categoryKey, updates),
        r |-> IF RestTriggered(categoryKey, triggerRest)
              THEN [success |-> TRUE, restStarted |-> TRUE, restEnd |-> restEnd]
              ELSE [success |-> TRUE, restStarted |-> FALSE]]

\* CappedSeconds without the cap: the report is added as it came.
CappedSecondsUncapped(category, currentTotal, seconds) == seconds

\* CappedSeconds without the comparison: the headroom is added whenever a
\* daily limit is set.
CappedSecondsToHeadroom(category, currentTotal, seconds) ==
    IF category.dailyLimit # Null /\ category.dailyLimit > 0
    THEN Max(0, category.dailyLimit - currentTotal)
    ELSE seconds

\* secondsToAdd: the report capped at the headroom under the daily limit.
CappedSeconds(category, currentTotal, seconds) ==
    IF category.dailyLimit # Null /\ category.dailyLimit > 0
    THEN LET headroom == Max(0, category.dailyLimit - currentTotal)
         IN IF seconds > headroom THEN headroom ELSE seconds
    ELSE seconds

\* TerminalReason with the daily limit checked first.
TerminalReasonDailyFirst(category, state, usageAfter) ==
    IF Truthy(category.dailyLimit) /\ usageAfter.totalTime >= category.dailyLimit
    THEN "daily_limit_reached"
    ELSE IF Truthy(category.sessionDuration) /\ state.inSession
            /\ state.sessionEffectiveTime >= category.sessionDuration
    THEN "session_limit_reached"
    ELSE "none"

\* TerminalReason with the daily limit compared by > instead of >=.
TerminalReasonStrict(category, state, usageAfter) ==
    IF Truthy(category.sessionDuration) /\ state.inSession
       /\ state.sessionEffectiveTime >= category.sessionDuration
    THEN "session_limit_reached"
    ELSE IF Truthy(category.dailyLimit) /\ usageAfter.totalTime > category.dailyLimit
    THEN "daily_limit_reached"
    ELSE "none"

\* The two limit checks made after the time is added, in the order of the
\* source: the session duration first, the daily limit second.
TerminalReason(category, state, usageAfter) ==
    IF Truthy(category.sessionDuration) /\ state.inSession
       /\ state.sessionEffectiveTime >= category.sessionDuration
    THEN "session_limit_reached"
    ELSE IF Truthy(category.dailyLimit) /\ usageAfter.totalTime >= category.dailyLimit
    THEN "daily_limit_reached"
    ELSE "none"

\* addEffectiveTime after the cap: secondsToAdd is added to the day and to the
\* session, then the limits are checked.
\* Beside the world and the returned object: the results of the calls made
\* to endSession (ended), secondsToAdd (timeAdded) and whether the category
\* was in session when the time was added (wasInSession).
AddSeconds(w, categoryKey, secondsToAdd) ==
    LET category == categories[categoryKey]
        added == addCategoryTime(w, categoryKey, secondsToAdd)
        usageAfter == added.r
        state0 == getCategoryActiveState(added.w, categoryKey)
        newSessionTime == state0.sessionEffectiveTime + secondsToAdd
        w1 == IF state0.inSession
              THEN updateCategoryActiveState(added.w, categoryKey,
                       [sessionEffectiveTime |-> newSessionTime])
              ELSE added.w
        state == IF state0.inSession
                 THEN [state0 EXCEPT !.sessionEffectiveTime = newSessionTime]
                 ELSE state0
        reason == TerminalReason(category, state, usageAfter)
    IN IF reason = "session_limit_reached"
       THEN LET e == endSession(w1, categoryKey, TRUE)
            IN [w |-> e.w,
                r |-> [allowed |-> FALSE, reason |-> "session_limit_reached",
                       sessionEnded |-> TRUE,
                       restStarted |-> TRUE,
                       restDuration |-> category.restDuration,
                       sessionEffectiveTime |-> state.sessionEffectiveTime],
                ended |-> <<e.r>>,
                timeAdded |-> secondsToAdd, wasInSession |-> state0.inSession]
       ELSE IF reason = "daily_limit_reached"
       THEN LET e == endSession(w1, categoryKey, FALSE)
            IN [w |-> e.w,
                r |-> [allowed |-> FALSE, reason |-> "daily_limit_reached",
                       sessionEnded |-> TRUE, totalTime |-> usageAfter.totalTime,
                       dailyLimit |-> category.dailyLimit],
                ended |-> <<e.r>>,
                timeAdded |-> secondsToAdd, wasInSession |-> state0.inSession]
       ELSE LET access == canAccessCategory(w1, categoryKey)
            IN [w |-> access.w,
                r |-> Spread(Spread([allowed |-> TRUE], access.r),
                             [timeAdded |-> secondsToAdd,
                              newTotal |-> usageAfter.totalTime,
                              sessionEffectiveTime |-> state.sessionEffectiveTime]),
                ended |-> << >>,
                timeAdded |-> secondsToAdd, wasInSession |-> state0.inSession]

\* addEffectiveTime without the test of the enabled flag.
addEffectiveTimeIgnoringEnabled(w, categoryKey, seconds) ==
    IF ~HasCategory(categoryKey)
    THEN [w |-> w, r |-> [allowed |-> TRUE], ended |-> << >>,
          timeAdded |-> 0, wasInSession |-> FALSE]
    ELSE
    LET category == categories[categoryKey]
        currentUsage == getCategoryUsage(w, categoryKey)
    IN AddSeconds(w, categoryKey,
                  CappedSeconds(category, currentUsage.totalTime, seconds))

\* addEffectiveTime with the report capped, in session, at what is left of
\* the session as well.
addEffectiveTimeSessionCapped(w, categoryKey, seconds) ==
    IF ~HasCategory(categoryKey) \/ ~categories[categoryKey].enabled
    THEN [w |-> w, r |-> [allowed |-> TRUE], ended |-> << >>,
          timeAdded |-> 0, wasInSession |-> FALSE]
    ELSE
    LET category == categories[categoryKey]
        currentUsage == getCategoryUsage(w, categoryKey)
        state == getCategoryActiveState(w, categoryKey)
        capped == CappedSeconds(category, currentUsage.totalTime, seconds)
        left == Max(0, category.sessionDuration - state.sessionEffectiveTime)
    IN AddSeconds(w, categoryKey,
                  IF state.inSession /\ Truthy(category.sessionDuration)
                     /\ capped > left
                  THEN left ELSE capped)

addEffectiveTime(w, categoryKey, seconds) ==
    IF ~HasCategory(categoryKey) \/ ~categories[categoryKey].enabled
    THEN [w |-> w, r |-> [allowed |-> TRUE], ended |-> << >>,
          timeAdded |-> 0, wasInSession |-> FALSE]
    ELSE
    LET category == categories[categoryKey]
        currentUsage == getCategoryUsage(w, categoryKey)
    IN AddSeconds(w, categoryKey,
                  CappedSeconds(category, currentUsage.totalTime, seconds))

RECURSIVE EndRests(_, _)
\* The loop of checkRestPeriods over the keys of the categories: a rest whose
\* restEnd has passed is cleared and its key pushed to endedRests.
EndRests(out, keys) ==
    IF keys = {} THEN out
    ELSE LET categoryKey == CHOOSE k \in keys : TRUE
             state == getCategoryActiveState(out.w, categoryKey)
             ended == state.inRest /\ Truthy(state.restEnd) /\ now >= state.restEnd
         IN EndRests(IF ended
                     THEN [w |-> updateCategoryActiveState(out.w, categoryKey,
                                     [inRest |-> FALSE, restEnd |-> Null]),
                           r |-> out.r \cup {categoryKey}]
                     ELSE out,
                     keys \ {categoryKey})

checkRestPeriods(w) == EndRests([w |-> w, r |-> {}], DOMAIN categories)

(***************************************************************************)
(* storage.js: time and limits of single domains.  The key                 *)
(* "categoryKey:domain" of pendingDomainUpdates is the pair of the two.    *)
(***************************************************************************)
Domains == {"a.example", "b.example"}

\* message.domain of a report that names no domain
NoDomain == "none"

\* limits[domain] || null
HasDomainLimit(domain) == domain \in DOMAIN domainLimits

\* getDomainUsage: today's committed time of the domain, of the first
\* category that has any, and the first pending entry of the domain.  With
\* the one category of CategoryKeys there is one of each at most.
getDomainUsage(w, domain) ==
    LET todayUsage == getTodayUsage(w)
        holders == {k \in CategoryKeys :
                       PendingOf(todayUsage[k].byDomain, domain) # 0}
        stored == IF holders = {} THEN 0
                  ELSE todayUsage[CHOOSE k \in holders : TRUE].byDomain[domain]
        entries == {e \in DOMAIN w.cache.pendingDomainUpdates : e[2] = domain}
        pendingTime == IF entries = {} THEN 0
                       ELSE w.cache.pendingDomainUpdates[CHOOSE e \in entries : TRUE]
    IN [totalTime |-> stored + pendingTime]

\* checkDomainLimit allowing a domain whose usage equals its limit.
checkDomainLimitInclusive(w, domain) ==
    IF ~HasDomainLimit(domain)
    THEN [limited |-> FALSE, allowed |-> TRUE]
    ELSE LET limit == domainLimits[domain]
             used == getDomainUsage(w, domain)
         IN [limited |-> TRUE,
             allowed |-> used.totalTime <= limit.dailyLimit,
             remaining |-> Max(0, limit.dailyLimit - used.totalTime),
             limit |-> limit.dailyLimit,
             used |-> used.totalTime]

\* checkDomainLimit: null (limited = FALSE) for a domain without a limit.
checkDomainLimit(w, domain) ==
    IF ~HasDomainLimit(domain)
    THEN [limited |-> FALSE, allowed |-> TRUE]
    ELSE LET limit == domainLimits[domain]
             used == getDomainUsage(w, domain)
         IN [limited |-> TRUE,
             allowed |-> used.totalTime < limit.dailyLimit,
             remaining |-> Max(0, limit.dailyLimit - used.totalTime),
             limit |-> limit.dailyLimit,
             used |-> used.totalTime]

\* addDomainTime: the pending entry grows first; near the limit of the
\* domain the pending time is flushed.
addDomainTime(w, categoryKey, domain, seconds) ==
    LET key == <<categoryKey, domain>>
        pending == w.cache.pendingDomainUpdates
        w1 == [w EXCEPT !.cache.pendingDomainUpdates =
                  [e \in (DOMAIN pending) \cup {key} |->
                      IF e = key THEN PendingOf(pending, e) + seconds
                      ELSE pending[e]]]
        w2 == getCachedUsage(w1)
        storedTime == IF getTodayKey \in DOMAIN w2.cache.usage
                      THEN PendingOf(w2.cache.usage[getTodayKey][categoryKey].byDomain,
                                     domain)
                      ELSE 0
        totalWithPending == storedTime + w2.cache.pendingDomainUpdates[key]
        near == HasDomainLimit(domain)
                /\ NearLimit(totalWithPending, domainLimits[domain].dailyLimit)
    IN [w |-> IF near THEN flushPendingTimeUpdates(w2) ELSE w2,
        r |-> totalWithPending]

\* setDomainLimit(domain, dailyLimit), null removing the limit
setDomainLimit(limits, domain, dailyLimit) ==
    IF dailyLimit = Null
    THEN [dom \in (DOMAIN limits) \ {domain} |-> limits[dom]]
    ELSE [dom \in (DOMAIN limits) \cup {domain} |->
             IF dom = domain THEN [dailyLimit |-> dailyLimit] ELSE limits[dom]]

(***************************************************************************)
(* background.js: tab coordination.  A tab is its id; a sender that is no  *)
(* tab has none.                                                           *)
(***************************************************************************)
REGISTER_STALE_MS == 30000
ACTIVITY_STALE_MS == 10000

Tabs == {1, 2}

NoTab == Null

HasActiveTab(tabs, categoryKey) == categoryKey \in DOMAIN tabs

\* activeTabsPerCategory.set(categoryKey, { tabId, lastActivity: Date.now() })
SetActiveTab(tabs, categoryKey, tabId) ==
    [k \in (DOMAIN tabs) \cup {categoryKey} |->
        IF k = categoryKey THEN [tabId |-> tabId, lastActivity |-> now]
        ELSE tabs[k]]

\* activeTabsPerCategory.delete(categoryKey)
DeleteActiveTab(tabs, categoryKey) ==
    [k \in (DOMAIN tabs) \ {categoryKey} |-> tabs[k]]

isActiveTabForCategory(tabs, categoryKey, tabId) ==
    [isActive |-> /\ Truthy(tabId)
                  /\ HasActiveTab(tabs, categoryKey)
                  /\ tabs[categoryKey].tabId = tabId]

handleRegisterTab(tabs, categoryKey, tabId) ==
    IF ~Truthy(tabId)
    THEN [tabs |-> tabs, r |-> [success |-> FALSE, reason |-> "no_tab_id"]]
    ELSE IF ~HasActiveTab(tabs, categoryKey)
    THEN [tabs |-> SetActiveTab(tabs, categoryKey, tabId),
          r |-> [success |-> TRUE, isActive |-> TRUE]]
    ELSE IF tabs[categoryKey].tabId = tabId
    THEN [tabs |-> [tabs EXCEPT ![categoryKey].lastActivity = now],
          r |-> [success |-> TRUE, isActive |-> TRUE]]
    ELSE IF now - tabs[categoryKey].lastActivity > REGISTER_STALE_MS
    THEN [tabs |-> SetActiveTab(tabs, categoryKey, tabId),
          r |-> [success |-> TRUE, isActive |-> TRUE]]
    ELSE [tabs |-> tabs, r |-> [success |-> TRUE, isActive |-> FALSE]]

handleUnregisterTab(tabs, categoryKey, tabId) ==
    IF ~Truthy(tabId)
    THEN [tabs |-> tabs, r |-> [success |-> FALSE]]
    ELSE [tabs |-> IF HasActiveTab(tabs, categoryKey)
                      /\ tabs[categoryKey].tabId = tabId
                   THEN DeleteActiveTab(tabs, categoryKey)
                   ELSE tabs,
          r |-> [success |-> TRUE]]

\* handleReportActivity taking over from a holder silent for the threshold
\* or longer.
handleReportActivityAtThreshold(tabs, categoryKey, isActive, tabId) ==
    IF ~Truthy(tabId)
    THEN [tabs |-> tabs, r |-> [success |-> FALSE]]
    ELSE IF ~isActive
    THEN [tabs |-> tabs,
          r |-> [success |-> TRUE,
                 isActive |-> HasActiveTab(tabs, categoryKey)
                              /\ tabs[categoryKey].tabId = tabId]]
    ELSE IF ~HasActiveTab(tabs, categoryKey) \/ tabs[categoryKey].tabId = tabId
    THEN [tabs |-> SetActiveTab(tabs, categoryKey, tabId),
          r |-> [success |-> TRUE, isActive |-> TRUE]]
    ELSE IF now - tabs[categoryKey].lastActivity >= ACTIVITY_STALE_MS
    THEN [tabs |-> SetActiveTab(tabs, categoryKey, tabId),
          r |-> [success |-> TRUE, isActive |-> TRUE]]
    ELSE [tabs |-> tabs, r |-> [success |-> TRUE, isActive |-> FALSE]]

\* handleReportActivity without the takeover from a silent holder.
handleReportActivityNoTakeover(tabs, categoryKey, isActive, tabId) ==
    IF ~Truthy(tabId)
    THEN [tabs |-> tabs, r |-> [success |-> FALSE]]
    ELSE IF ~isActive
    THEN [tabs |-> tabs,
          r |-> [success |-> TRUE,
                 isActive |-> HasActiveTab(tabs, categoryKey)
                              /\ tabs[categoryKey].tabId = tabId]]
    ELSE IF ~HasActiveTab(tabs, categoryKey) \/ tabs[categoryKey].tabId = tabId
    THEN [tabs |-> SetActiveTab(tabs, categoryKey, tabId),
          r |-> [success |-> TRUE, isActive |-> TRUE]]
    ELSE [tabs |-> tabs, r |-> [success |-> TRUE, isActive |-> FALSE]]

handleReportActivity(tabs, categoryKey, isActive, tabId) ==
    IF ~Truthy(tabId)
    THEN [tabs |-> tabs, r |-> [success |-> FALSE]]
    ELSE IF ~isActive
    THEN [tabs |-> tabs,
          r |-> [success |-> TRUE,
                 isActive |-> HasActiveTab(tabs, categoryKey)
                              /\ tabs[categoryKey].tabId = tabId]]
    ELSE IF ~HasActiveTab(tabs, categoryKey) \/ tabs[categoryKey].tabId = tabId
    THEN [tabs |-> SetActiveTab(tabs, categoryKey, tabId),
          r |-> [success |-> TRUE, isActive |-> TRUE]]
    ELSE IF now - tabs[categoryKey].lastActivity > ACTIVITY_STALE_MS
    THEN [tabs |-> SetActiveTab(tabs, categoryKey, tabId),
          r |-> [success |-> TRUE, isActive |-> TRUE]]
    ELSE [tabs |-> tabs, r |-> [success |-> TRUE, isActive |-> FALSE]]

\* chrome.tabs.onRemoved
handleTabClosed(tabs, tabId) ==
    [k \in {e \in DOMAIN tabs : tabs[e].tabId # tabId} |-> tabs[k]]

\* The answer of handleAddTime to a report that reached neither
\* addDomainTime nor addEffectiveTime.
NotAdded(w, tabs, r) ==
    [w |-> w, tabs |-> tabs, r |-> r, ended |-> << >>, timeAdded |-> 0,
     wasInSession |-> FALSE, counted |-> FALSE]

\* handleAddTime without its check of the sender against the active tab.
handleAddTimeUngated(w, tabs, categoryKey, domain, seconds, tabId) ==
    LET tabs1 == IF Truthy(tabId) THEN SetActiveTab(tabs, categoryKey, tabId) ELSE tabs
        domainCheck == checkDomainLimit(w, domain)
    IN IF domain # NoDomain /\ domainCheck.limited /\ ~domainCheck.allowed
       THEN NotAdded(w, tabs1, [allowed |-> FALSE, reason |-> "domain_limit",
                                domain |-> domain, limit |-> domainCheck.limit,
                                used |-> domainCheck.used])
       ELSE LET w1 == IF domain # NoDomain
                      THEN addDomainTime(w, categoryKey, domain, seconds).w ELSE w
                result == addEffectiveTime(w1, categoryKey, seconds)
            IN [w |-> result.w, tabs |-> tabs1, r |-> result.r,
                ended |-> result.ended, timeAdded |-> result.timeAdded,
                wasInSession |-> result.wasInSession, counted |-> TRUE]

\* handleAddTime(categoryKey, domain, seconds, sender).  The broadcast and
\* the badge that follow addEffectiveTime change nothing stored.
handleAddTime(w, tabs, categoryKey, domain, seconds, tabId) ==
    LET isCurrentTabActive == isActiveTabForCategory(tabs, categoryKey, tabId).isActive
        skipped == Truthy(tabId) /\ ~isCurrentTabActive
                   /\ HasActiveTab(tabs, categoryKey)
        tabs1 == IF Truthy(tabId) THEN SetActiveTab(tabs, categoryKey, tabId)
                 ELSE tabs
        domainCheck == checkDomainLimit(w, domain)
    IN IF skipped
       THEN NotAdded(w, tabs, [allowed |-> TRUE, skipped |-> TRUE,
                               reason |-> "not_active_tab"])
       ELSE IF domain # NoDomain /\ domainCheck.limited /\ ~domainCheck.allowed
       THEN NotAdded(w, tabs1, [allowed |-> FALSE, reason |-> "domain_limit",
                                domain |-> domain, limit |-> domainCheck.limit,
                                used |-> domainCheck.used])
       ELSE LET w1 == IF domain # NoDomain
                      THEN addDomainTime(w, categoryKey, domain, seconds).w
                      ELSE w
                result == addEffectiveTime(w1, categoryKey, seconds)
            IN [w |-> result.w, tabs |-> tabs1, r |-> result.r,
                ended |-> result.ended, timeAdded |-> result.timeAdded,
                wasInSession |-> result.wasInSession, counted |-> TRUE]

(***************************************************************************)
(* State machine: every handler runs to completion in one step.            *)
(***************************************************************************)
NoCall == [op |-> "none"]

\* What a call to addEffectiveTime found: the merged total of the day and
\* the session time of the category.
Pre(categoryKey) ==
    [totalTime |-> getCategoryUsage(World, categoryKey).totalTime,
     sessionEffectiveTime |-> activeState[categoryKey].sessionEffectiveTime]

Install(w) ==
    /\ usage' = w.usage
    /\ activeState' = w.activeState
    /\ storageCache' = w.cache

\* A handler in flight is suspended at an await of chrome.storage.local and
\* keeps its local variables: the report (seconds), secondsToAdd, the total
\* addCategoryTime returned (total), its copy of the ActiveState (state), the
\* usage map or activeState map it is about to write (snap, states), the
\* argument of updateCategoryActiveState (upd), what follows the call it is
\* in (ret), the function that called canAccessCategory (caller), the
\* session list canAccessCategory read (sessions) and the clock reading
\* checkRestPeriods took when it was called (at).
NoUsage == [d \in {} |-> EmptyDay]

NoStates == [k \in {} |-> DefaultActiveState]

NoUpdate == [f \in {} |-> Null]

IdleCall ==
    [pc |-> "idle", categoryKey |-> "none", seconds |-> 0, secondsToAdd |-> 0,
     total |-> 0, state |-> DefaultActiveState, snap |-> NoUsage,
     states |-> NoStates, upd |-> NoUpdate, ret |-> "none",
     triggerRest |-> FALSE, caller |-> "none", sessions |-> << >>, at |-> 0]

\* Handler 0 is the callback of the flush timer; the others are ADD_TIME
\* messages being handled.
Timer == 0

Reporters == {1, 2}

\* Handler 3 is the callback of the alarms.
Alarm == 3

Handlers == {Timer} \cup Reporters \cup {Alarm}

\* No domain has a limit; no tab is registered.
NoDomainLimits == [dom \in {} |-> [dailyLimit |-> Null]]

NoTabs == [k \in {} |-> [tabId |-> Null, lastActivity |-> 0]]

NoCategories == [k \in {} |-> Category(FALSE, Null, Null, Null, Null, << >>)]

Init ==
    /\ categories \in {[k \in CategoryKeys |-> c] : c \in CategoryConfigs}
                      \cup {NoCategories}
    /\ usage = [d \in {} |-> EmptyDay]
    /\ activeState = [k \in CategoryKeys |-> DefaultActiveState]
    /\ storageCache = [usage |-> NoCachedUsage, usageLoaded |-> FALSE,
                       lastUsageWrite |-> 0, pendingTimeUpdates |-> NoPending,
                       pendingDomainUpdates |-> NoPending]
    /\ now = StartNow
    /\ lastDateKey = DateKeyOf(StartNow)
    /\ alarmsFired = 0
    /\ last = NoCall
    /\ calls = [p \in Handlers |-> IdleCall]
    /\ accepted = [k \in CategoryKeys |-> 0]
    /\ domainLimits = NoDomainLimits
    /\ activeTabsPerCategory = NoTabs

\* CAN_ACCESS
CanAccess(categoryKey) ==
    \E out \in {canAccessCategory(World, categoryKey)} :
       /\ Install(out.w)
       /\ last' = [op |-> "canAccessCategory", categoryKey |-> categoryKey,
                   r |-> out.r, pre |-> activeState[categoryKey]]
       /\ UNCHANGED <<coordination, categories, now, lastDateKey, alarmsFired, calls, accepted>>

\* START_SESSION
StartSession(categoryKey) ==
    \E out \in {startSession(World, categoryKey)} :
       /\ Len(getTodayUsage(World)[categoryKey].sessions) < MaxSessions
       /\ Install(out.w)
       /\ last' = [op |-> "startSession", categoryKey |-> categoryKey,
                   r |-> out.r]
       /\ UNCHANGED <<coordination, categories, now, lastDateKey, alarmsFired, calls, accepted>>

\* END_SESSION
EndSession(categoryKey, triggerRest) ==
    \E out \in {endSession(World, categoryKey, triggerRest)} :
       /\ Install(out.w)
       /\ last' = [op |-> "endSession", categoryKey |-> categoryKey,
                   triggerRest |-> triggerRest, r |-> out.r]
       /\ UNCHANGED <<coordination, categories, now, lastDateKey, alarmsFired, calls, accepted>>

\* A report of a detector reaches addEffectiveTime.
Report(categoryKey, seconds) ==
    \E out \in {addEffectiveTime(World, categoryKey, seconds)} :
       /\ getCategoryUsage(World, categoryKey).totalTime < MaxTotal
       /\ Install(out.w)
       /\ last' = [op |-> "addEffectiveTime", categoryKey |-> categoryKey,
                   seconds |-> seconds, r |-> out.r, ended |-> out.ended,
                   timeAdded |-> out.timeAdded, wasInSession |-> out.wasInSession,
                   pre |-> Pre(categoryKey)]
       /\ UNCHANGED <<coordination, categories, now, lastDateKey, alarmsFired, calls, accepted>>

AddEffectiveTime == \E k \in CategoryKeys, s \in Reports : Report(k, s)

\* setInterval(flushPendingTimeUpdates, BATCH_WRITE_INTERVAL)
FlushTimer ==
    /\ Install(flushPendingTimeUpdates(World))
    /\ last' = NoCall
    /\ UNCHANGED <<coordination, categories, now, lastDateKey, alarmsFired, calls, accepted>>

handleMidnightReset ==
    /\ lastDateKey' = getTodayKey
    /\ Install(performDailyReset(World))
    /\ last' = [op |-> "performDailyReset", after |-> last.op]

\* The midnightReset alarm: one for every midnight passed.
MidnightAlarm ==
    /\ alarmsFired < getTodayKey
    /\ alarmsFired' = alarmsFired + 1
    /\ handleMidnightReset
    /\ UNCHANGED <<coordination, categories, now, calls, accepted>>

\* CHECK_DATE
checkDateChange ==
    /\ getTodayKey # lastDateKey
    /\ handleMidnightReset
    /\ UNCHANGED <<coordination, categories, now, alarmsFired, calls, accepted>>

\* The checkRestPeriods alarm
handleCheckRestPeriods ==
    \E out \in {checkRestPeriods(World)} :
       /\ Install(out.w)
       /\ last' = [op |-> "checkRestPeriods", r |-> out.r]
       /\ UNCHANGED <<coordination, categories, now, lastDateKey, alarmsFired, calls, accepted>>

\* Hours pass: the clock moves to the next noon or midnight.
TickMark ==
    /\ (now \div HalfDayMs) * HalfDayMs < StartNow + MaxJumps * HalfDayMs
    /\ now' = (now \div HalfDayMs + 1) * HalfDayMs
    /\ last' = NoCall
    /\ UNCHANGED <<coordination, categories, usage, activeState, storageCache, lastDateKey,
                   alarmsFired, calls, accepted>>

Next ==
    \/ \E k \in CategoryKeys : CanAccess(k)
    \/ \E k \in CategoryKeys : StartSession(k)
    \/ \E k \in CategoryKeys, t \in BOOLEAN : EndSession(k, t)
    \/ AddEffectiveTime
    \/ FlushTimer
    \/ MidnightAlarm
    \/ checkDateChange
    \/ handleCheckRestPeriods
    \/ TickMark

Spec == Init /\ [][Next]_vars

(***************************************************************************)
(* Reports of any size.  handleMessage passes message.seconds on as it     *)
(* came, so an ADD_TIME message may carry zero or a negative number.       *)
(***************************************************************************)
AnyReports == Reports \cup {0, -1}

AddAnyTime ==
    \E k \in CategoryKeys, s \in AnyReports :
        /\ getCategoryUsage(World, k).totalTime > -MaxTotal
        /\ Report(k, s)

NextAnyReport ==
    \/ \E k \in CategoryKeys : StartSession(k)
    \/ AddAnyTime
    \/ FlushTimer

SpecAnyReport == Init /\ [][NextAnyReport]_vars

(***************************************************************************)
(* The options page: a category is saved with its enabled box changed, or  *)
(* deleted, while the background page keeps its usage and ActiveState.     *)
(***************************************************************************)
saveCategory(key, enabled) ==
    /\ HasCategory(key)
    /\ categories[key].enabled # enabled
    /\ categories' = [categories EXCEPT ![key].enabled = enabled]
    /\ last' = NoCall
    /\ UNCHANGED <<coordination, usage, activeState, storageCache, now,
                   lastDateKey, alarmsFired, calls, accepted>>

deleteCategory(key) ==
    /\ HasCategory(key)
    /\ categories' = [k \in (DOMAIN categories) \ {key} |-> categories[k]]
    /\ last' = NoCall
    /\ UNCHANGED <<coordination, usage, activeState, storageCache, now,
                   lastDateKey, alarmsFired, calls, accepted>>

NextOptions ==
    \/ \E k \in CategoryKeys : CanAccess(k)
    \/ \E k \in CategoryKeys : StartSession(k)
    \/ \E k \in CategoryKeys : EndSession(k, TRUE)
    \/ AddEffectiveTime
    \/ TickMark
    \/ \E k \in CategoryKeys, e \in BOOLEAN : saveCategory(k, e)
    \/ \E k \in CategoryKeys : deleteCategory(k)

SpecOptions == Init /\ [][NextOptions]_vars

(***************************************************************************)
(* Times of day.  The extension is asked for access at any half hour of    *)
(* the day, for a category with one of several lists of forbidden periods. *)
(***************************************************************************)
HalfHourMs == 30 * MsPerMinute

Noon == [start |-> <<12, 0>>, end |-> <<12, 0>>]

\* Two periods, the second beginning where the first ends.
Morning == [start |-> <<9, 0>>, end |-> <<12, 0>>]
Midday == [start |-> <<12, 0>>, end |-> <<14, 0>>]

PeriodLists ==
    { << >>, <<Overnight>>, <<Daytime>>, <<Noon>>, <<Daytime, Overnight>>,
      <<Morning, Midday>> }

InitPeriods ==
    /\ \E fp \in PeriodLists :
          categories = [k \in CategoryKeys |-> Category(TRUE, 3, 2, 1, 1, fp)]
    /\ usage = [d \in {} |-> EmptyDay]
    /\ activeState = [k \in CategoryKeys |-> DefaultActiveState]
    /\ storageCache = [usage |-> NoCachedUsage, usageLoaded |-> FALSE,
                       lastUsageWrite |-> 0, pendingTimeUpdates |-> NoPending,
                       pendingDomainUpdates |-> NoPending]
    /\ \E h \in 0..(DayMs \div HalfHourMs - 1) : now = h * HalfHourMs
    /\ lastDateKey = 0
    /\ alarmsFired = 0
    /\ last = NoCall
    /\ calls = [p \in Handlers |-> IdleCall]
    /\ accepted = [k \in CategoryKeys |-> 0]
    /\ domainLimits = NoDomainLimits
    /\ activeTabsPerCategory = NoTabs

NextPeriods == \E k \in CategoryKeys : CanAccess(k)

SpecPeriods == InitPeriods /\ [][NextPeriods]_vars

(***************************************************************************)
(* Rest periods.  The clock moves on in steps of less than a second while  *)
(* sessions are started and ended.                                         *)
(***************************************************************************)
FineStepMs == MsPerSecond \div 2

TickFine ==
    /\ now < StartNow + MaxFine * FineStepMs
    /\ now' = now + FineStepMs
    /\ last' = NoCall
    /\ UNCHANGED <<coordination, categories, usage, activeState, storageCache, lastDateKey,
                   alarmsFired, calls, accepted>>

NextRest ==
    \/ \E k \in CategoryKeys : CanAccess(k)
    \/ \E k \in CategoryKeys : StartSession(k)
    \/ \E k \in CategoryKeys, t \in BOOLEAN : EndSession(k, t)
    \/ AddEffectiveTime
    \/ handleCheckRestPeriods
    \/ TickFine

SpecRest == Init /\ [][NextRest]_vars

(***************************************************************************)
(* The retention window.  The clock is sampled at noon of the first days   *)
(* of every window of DATA_RETENTION_DAYS days; the dailyCleanup alarm and *)
(* the midnightReset alarm are served in any order.  Day 0 lies in the     *)
(* middle of the run, the timestamps being 32-bit integers here.           *)
(***************************************************************************)

\* new Date(dateKey) < cutoff, the cutoff being now less retentionDays:
\* dateKey * DayMs < now - retentionDays * DayMs, in days and a rest
OlderThanRetention(dateKey) ==
    \/ dateKey + DATA_RETENTION_DAYS < getTodayKey
    \/ dateKey + DATA_RETENTION_DAYS = getTodayKey /\ now % DayMs > 0

cleanupOldData(w) ==
    [w EXCEPT !.usage =
        [d \in {e \in DOMAIN w.usage : ~OlderThanRetention(e)} |-> w.usage[d]]]

\* The dailyCleanup alarm
dailyCleanup ==
    /\ Install(cleanupOldData(World))
    /\ last' = [op |-> "cleanupOldData"]
    /\ UNCHANGED <<coordination, categories, now, lastDateKey, alarmsFired, calls, accepted>>

RetentionStartDay == -((MaxDays + 1) \div 2)

RetentionDays ==
    {RetentionStartDay + d : d \in {e \in 0..MaxDays :
                                       e % DATA_RETENTION_DAYS <= MaxFirstDays}}

\* Days pass: the clock moves to noon of the next day it is sampled at.
TickDays ==
    /\ \E d \in RetentionDays :
          /\ d > getTodayKey
          /\ \A e \in RetentionDays : e > getTodayKey => d <= e
          /\ now' = d * DayMs + HalfDayMs
    /\ last' = NoCall
    /\ UNCHANGED <<coordination, categories, usage, activeState, storageCache, lastDateKey,
                   alarmsFired, calls, accepted>>

\* A report is sent while few earlier days hold a record.
RetentionReport ==
    /\ Cardinality((DOMAIN usage) \ {getTodayKey}) < MaxDayRecords
    /\ AddEffectiveTime

InitRetention ==
    /\ categories = [k \in CategoryKeys |-> Category(TRUE, 3, 2, 1, 1, << >>)]
    /\ usage = [d \in {} |-> EmptyDay]
    /\ activeState = [k \in CategoryKeys |-> DefaultActiveState]
    /\ now = RetentionStartDay * DayMs + HalfDayMs
    /\ storageCache = [usage |-> NoCachedUsage, usageLoaded |-> FALSE,
                       lastUsageWrite |-> now - DayMs,
                       pendingTimeUpdates |-> NoPending,
                       pendingDomainUpdates |-> NoPending]
    /\ lastDateKey = RetentionStartDay
    /\ alarmsFired = RetentionStartDay
    /\ last = NoCall
    /\ calls = [p \in Handlers |-> IdleCall]
    /\ accepted = [k \in CategoryKeys |-> 0]
    /\ domainLimits = NoDomainLimits
    /\ activeTabsPerCategory = NoTabs

NextRetention ==
    \/ RetentionReport
    \/ FlushTimer
    \/ MidnightAlarm
    \/ checkDateChange
    \/ dailyCleanup
    \/ TickDays

SpecRetention == InitRetention /\ [][NextRetention]_vars

(***************************************************************************)
(* Tabs and domains.  Two tabs of one category send the messages of the    *)
(* tab coordination and ADD_TIME reports that name their domain; the clock *)
(* moves on in steps of a few seconds.  In the specifications above the    *)
(* reports are those of the one tab that holds the category, and its entry *)
(* in activeTabsPerCategory is left out.                                   *)
(***************************************************************************)
TabStepMs == 5 * MsPerSecond

TickSeconds ==
    /\ now < StartNow + MaxTabSteps * TabStepMs
    /\ now' = now + TabStepMs
    /\ last' = NoCall
    /\ UNCHANGED <<coordination, categories, usage, activeState, storageCache,
                   lastDateKey, alarmsFired, calls, accepted>>

\* The tab that holds the category, or none.
ActiveTabOf(categoryKey) ==
    IF HasActiveTab(activeTabsPerCategory, categoryKey)
    THEN activeTabsPerCategory[categoryKey].tabId
    ELSE NoTab

\* REGISTER_TAB
RegisterTab(tabId, categoryKey) ==
    \E out \in {handleRegisterTab(activeTabsPerCategory, categoryKey, tabId)} :
       /\ activeTabsPerCategory' = out.tabs
       /\ last' = [op |-> "handleRegisterTab", categoryKey |-> categoryKey,
                   tabId |-> tabId, r |-> out.r, holder |-> ActiveTabOf(categoryKey)]
       /\ UNCHANGED <<domainLimits, categories, usage, activeState, storageCache,
                      now, lastDateKey, alarmsFired, calls, accepted>>

\* UNREGISTER_TAB
UnregisterTab(tabId, categoryKey) ==
    \E out \in {handleUnregisterTab(activeTabsPerCategory, categoryKey, tabId)} :
       /\ activeTabsPerCategory' = out.tabs
       /\ last' = [op |-> "handleUnregisterTab", categoryKey |-> categoryKey,
                   tabId |-> tabId, r |-> out.r, holder |-> ActiveTabOf(categoryKey)]
       /\ UNCHANGED <<domainLimits, categories, usage, activeState, storageCache,
                      now, lastDateKey, alarmsFired, calls, accepted>>

\* REPORT_ACTIVITY
ReportActivity(tabId, categoryKey, isActive) ==
    \E out \in {handleReportActivity(activeTabsPerCategory, categoryKey,
                                     isActive, tabId)} :
       /\ activeTabsPerCategory' = out.tabs
       /\ last' = [op |-> "handleReportActivity", categoryKey |-> categoryKey,
                   tabId |-> tabId, isActive |-> isActive, r |-> out.r,
                   holder |-> ActiveTabOf(categoryKey)]
       /\ UNCHANGED <<domainLimits, categories, usage, activeState, storageCache,
                      now, lastDateKey, alarmsFired, calls, accepted>>

\* chrome.tabs.onRemoved
TabClosed(tabId) ==
    /\ activeTabsPerCategory' = handleTabClosed(activeTabsPerCategory, tabId)
    /\ last' = [op |-> "handleTabClosed", tabId |-> tabId]
    /\ UNCHANGED <<domainLimits, categories, usage, activeState, storageCache,
                   now, lastDateKey, alarmsFired, calls, accepted>>

\* committed + pending seconds of a domain of a category, today
DomainMerged(categoryKey, domain) ==
    PendingOf(getTodayUsage(World)[categoryKey].byDomain, domain)
        + PendingOf(storageCache.pendingDomainUpdates, <<categoryKey, domain>>)

\* ADD_TIME of a tab, with the domain it names (or none)
AddTime(tabId, categoryKey, domain, seconds) ==
    \E out \in {handleAddTime(World, activeTabsPerCategory, categoryKey, domain,
                              seconds, tabId)} :
       /\ getCategoryUsage(World, categoryKey).totalTime < MaxTotal
       /\ DomainMerged(categoryKey, domain) < MaxTotal
       /\ Install(out.w)
       /\ activeTabsPerCategory' = out.tabs
       /\ last' = [op |-> "handleAddTime", categoryKey |-> categoryKey,
                   domain |-> domain, seconds |-> seconds, tabId |-> tabId,
                   r |-> out.r, ended |-> out.ended, timeAdded |-> out.timeAdded,
                   wasInSession |-> out.wasInSession, counted |-> out.counted,
                   holder |-> ActiveTabOf(categoryKey),
                   pre |-> [totalTime |-> getCategoryUsage(World, categoryKey).totalTime,
                            sessionEffectiveTime |->
                                activeState[categoryKey].sessionEffectiveTime,
                            domainTime |-> getDomainUsage(World, domain).totalTime,
                            limited |-> HasDomainLimit(domain)]]
       /\ UNCHANGED <<domainLimits, categories, now, lastDateKey, alarmsFired,
                      calls, accepted>>

\* SET_DOMAIN_LIMIT
SetDomainLimit(domain, dailyLimit) ==
    /\ domainLimits' = setDomainLimit(domainLimits, domain, dailyLimit)
    /\ domainLimits' # domainLimits
    /\ last' = NoCall
    /\ UNCHANGED <<activeTabsPerCategory, categories, usage, activeState,
                   storageCache, now, lastDateKey, alarmsFired, calls, accepted>>

InitTabs ==
    /\ Init
    /\ categories = [k \in CategoryKeys |-> Category(TRUE, 3, 2, 1, 1, << >>)]

NextTabs ==
    \/ \E t \in Tabs, k \in CategoryKeys : RegisterTab(t, k)
    \/ \E t \in Tabs, k \in CategoryKeys : UnregisterTab(t, k)
    \/ \E t \in Tabs, k \in CategoryKeys, a \in BOOLEAN : ReportActivity(t, k, a)
    \/ \E t \in Tabs : TabClosed(t)
    \/ \E t \in Tabs, k \in CategoryKeys, s \in Reports :
          AddTime(t, k, "a.example", s)
    \/ \E k \in CategoryKeys : StartSession(k)
    \/ TickSeconds

SpecTabs == InitTabs /\ [][NextTabs]_vars

NextDomains ==
    \/ \E t \in Tabs, k \in CategoryKeys, dom \in Domains \cup {NoDomain},
          s \in Reports : AddTime(t, k, dom, s)
    \/ \E t \in Tabs, k \in CategoryKeys : UnregisterTab(t, k)
    \/ \E dom \in Domains, l \in (1..MaxDomainLimit) \cup {Null} :
          SetDomainLimit(dom, l)
    \/ \E k \in CategoryKeys : StartSession(k)
    \/ FlushTimer

SpecDomains == InitTabs /\ [][NextDomains]_vars

(***************************************************************************)
(* The background process is terminated and started again.  What lives in  *)
(* the module is as the module creates it: the cache and the pending maps  *)
(* (storage.js 510-518), lastDateKey and activeTabsPerCategory             *)
(* (background.js 39-43).  chrome.storage.local and the alarms are kept.   *)
(***************************************************************************)
Restart ==
    /\ storageCache' = [usage |-> NoCachedUsage, usageLoaded |-> FALSE,
                        lastUsageWrite |-> 0, pendingTimeUpdates |-> NoPending,
                        pendingDomainUpdates |-> NoPending]
    /\ activeTabsPerCategory' = NoTabs
    /\ lastDateKey' = getTodayKey
    /\ calls' = [p \in Handlers |-> IdleCall]
    /\ last' = [op |-> "restart"]
    /\ UNCHANGED <<domainLimits, categories, usage, activeState, now,
                   alarmsFired, accepted>>

\* Seconds lost with the pending map can be reported again: no report is sent
\* once the effective time of a session has reached the bound of the total.
CrashReport ==
    /\ \A k \in CategoryKeys : activeState[k].sessionEffectiveTime < MaxTotal
    /\ AddEffectiveTime

NextCrash ==
    \/ \E k \in CategoryKeys : CanAccess(k)
    \/ \E k \in CategoryKeys : StartSession(k)
    \/ \E k \in CategoryKeys, t \in BOOLEAN : EndSession(k, t)
    \/ CrashReport
    \/ FlushTimer
    \/ MidnightAlarm
    \/ checkDateChange
    \/ handleCheckRestPeriods
    \/ TickMark
    \/ Restart

SpecCrash == Init /\ [][NextCrash]_vars

(***************************************************************************)
(* A holder that falls silent.  Tab 1 holds the category and reports for a *)
(* while, then sends nothing more: no UNREGISTER_TAB, and no tab-closed    *)
(* event arrives.  Tab 2 keeps running handleTimeUpdate: REPORT_ACTIVITY   *)
(* with isActive = true, then ADD_TIME with its domain.                    *)
(***************************************************************************)
\* Tab 1 sends its messages only as long as the clock has room left for tab
\* 2 to find it silent, and its reports leave a second of the day's bound.
HolderStillReports ==
    now + ACTIVITY_STALE_MS + TabStepMs <= StartNow + MaxTabSteps * TabStepMs

HolderTimeUpdate ==
    /\ HolderStillReports
    /\ \E k \in CategoryKeys :
          \/ ReportActivity(1, k, TRUE)
          \/ \E s \in Reports :
                /\ getCategoryUsage(World, k).totalTime + s < MaxTotal
                /\ AddTime(1, k, "a.example", s)

OtherReportsActivity == \E k \in CategoryKeys : ReportActivity(2, k, TRUE)

OtherAddsTime ==
    \E k \in CategoryKeys, s \in Reports : AddTime(2, k, "b.example", s)

\* Tab 1 has registered for the category at start-up.
InitLockout ==
    /\ categories = [k \in CategoryKeys |-> Category(TRUE, MaxTotal, 2, 1, 0, << >>)]
    /\ usage = [d \in {} |-> EmptyDay]
    /\ activeState = [k \in CategoryKeys |-> DefaultActiveState]
    /\ storageCache = [usage |-> NoCachedUsage, usageLoaded |-> FALSE,
                       lastUsageWrite |-> 0, pendingTimeUpdates |-> NoPending,
                       pendingDomainUpdates |-> NoPending]
    /\ now = StartNow
    /\ lastDateKey = DateKeyOf(StartNow)
    /\ alarmsFired = 0
    /\ last = NoCall
    /\ calls = [p \in Handlers |-> IdleCall]
    /\ accepted = [k \in CategoryKeys |-> 0]
    /\ domainLimits = NoDomainLimits
    /\ activeTabsPerCategory =
          [k \in CategoryKeys |-> [tabId |-> 1, lastActivity |-> StartNow]]

NextLockout ==
    \/ HolderTimeUpdate
    \/ OtherReportsActivity
    \/ OtherAddsTime
    \/ TickSeconds

\* An ADD_TIME of tab 2 was handled last.
OtherAddTimeHandled == last.op = "handleAddTime" /\ last.tabId = 2

\* Time passes, and tab 2 keeps sending both messages of handleTimeUpdate:
\* its REPORT_ACTIVITY is handled whenever it would change something, and
\* its ADD_TIME is handled again and again.
SpecLockout ==
    /\ InitLockout
    /\ [][NextLockout]_vars
    /\ WF_vars(TickSeconds)
    /\ WF_vars(OtherReportsActivity)
    /\ []<>OtherAddTimeHandled

(***************************************************************************)
(* Handlers in flight.  JavaScript runs a handler from one await of        *)
(* chrome.storage.local to the next without interruption; the storage      *)
(* operation takes effect when the handler resumes.  getCategories reads a *)
(* value no step changes: where the handler does nothing else between that *)
(* await and the next one, the two are one step.  The clock stands still.  *)
(***************************************************************************)
Suspend(p, frame) == calls' = [calls EXCEPT ![p] = frame]

\* updateCategoryActiveState(categoryKey, newState) is called: the handler
\* is suspended at its getActiveState.
CallUpdate(frame, newState, ret) ==
    [IdleCall EXCEPT !.pc = "updateGet", !.categoryKey = frame.categoryKey,
                     !.seconds = frame.seconds,
                     !.secondsToAdd = frame.secondsToAdd,
                     !.total = frame.total, !.state = frame.state,
                     !.upd = newState, !.ret = ret,
                     !.caller = frame.caller, !.sessions = frame.sessions]

\* Lines 225-260 of addEffectiveTime: the session check, the daily check and
\* the call each one leads to.
LimitChecks(frame) ==
    LET category == categories[frame.categoryKey]
        reason == TerminalReason(category, frame.state, [totalTime |-> frame.total])
    IN IF reason = "session_limit_reached"
       THEN [IdleCall EXCEPT !.pc = "endCategorySessionGet",
                             !.categoryKey = frame.categoryKey,
                             !.triggerRest = TRUE]
       ELSE IF reason = "daily_limit_reached"
       THEN [IdleCall EXCEPT !.pc = "endCategorySessionGet",
                             !.categoryKey = frame.categoryKey,
                             !.triggerRest = FALSE]
       ELSE [IdleCall EXCEPT !.pc = "canAccessUsage",
                             !.categoryKey = frame.categoryKey,
                             !.caller = "addEffectiveTime"]

\* flushPendingTimeUpdates returns: to the timer, to performDailyReset and
\* its getActiveState, or to addCategoryTime, which returns to
\* addEffectiveTime and its getCategoryActiveState.
AfterFlush(frame) ==
    IF frame.ret = "timer" THEN IdleCall
    ELSE IF frame.ret = "performDailyReset"
    THEN [IdleCall EXCEPT !.pc = "resetState"]
    ELSE [frame EXCEPT !.pc = "getCategoryActiveState", !.snap = NoUsage,
                       !.ret = "none"]

\* An ADD_TIME message arrives: addEffectiveTime runs to getCategoryUsage.
Receive(p, categoryKey, seconds) ==
    /\ calls[p].pc = "idle"
    /\ accepted[categoryKey] < MaxTotal
    /\ Suspend(p, IF HasCategory(categoryKey) /\ categories[categoryKey].enabled
                  THEN [IdleCall EXCEPT !.pc = "getCategoryUsage",
                                        !.categoryKey = categoryKey,
                                        !.seconds = seconds]
                  ELSE IdleCall)
    /\ UNCHANGED <<coordination, categories, usage, activeState, storageCache, now,
                   lastDateKey, alarmsFired, last, accepted>>

\* getCategoryUsage returns the merged total; the report is capped and
\* addCategoryTime adds it to the pending entry, up to its getCachedUsage.
ResumeCategoryUsage(p) ==
    LET c == calls[p]
        currentUsage == getCategoryUsage(World, c.categoryKey)
        secondsToAdd == CappedSeconds(categories[c.categoryKey],
                                      currentUsage.totalTime, c.seconds)
        w1 == AddPending(World, c.categoryKey, secondsToAdd)
        w2 == [w1 EXCEPT !.cache.usage = CacheOf(WithDay(@, getTodayKey))]
    IN /\ c.pc = "getCategoryUsage"
       /\ accepted' = [accepted EXCEPT ![c.categoryKey] = @ + secondsToAdd]
       /\ IF CacheStale(w1)
          THEN /\ Install(w1)
               /\ Suspend(p, [c EXCEPT !.pc = "getCachedUsage",
                                       !.secondsToAdd = secondsToAdd])
          ELSE /\ Install(w2)
               /\ Suspend(p, [c EXCEPT !.pc = "getCategories",
                                       !.secondsToAdd = secondsToAdd,
                                       !.total = TotalWithPending(w2, c.categoryKey)])
       /\ UNCHANGED <<coordination, categories, now, lastDateKey, alarmsFired, last>>

\* getCachedUsage has read the stored usage into the cache.
ResumeCachedUsage(p) ==
    LET c == calls[p]
        w1 == [World EXCEPT !.cache.usage = CacheOf(WithDay(World.usage, getTodayKey)),
                            !.cache.usageLoaded = TRUE]
    IN /\ c.pc = "getCachedUsage"
       /\ Install(w1)
       /\ Suspend(p, [c EXCEPT !.pc = "getCategories",
                               !.total = TotalWithPending(w1, c.categoryKey)])
       /\ UNCHANGED <<coordination, categories, now, lastDateKey, alarmsFired, last, accepted>>

\* getCategories of addCategoryTime returns: near the limit the pending
\* time is flushed.
ResumeCategories(p) ==
    LET c == calls[p]
        near == NearLimit(c.total, categories[c.categoryKey].dailyLimit)
    IN /\ c.pc = "getCategories"
       /\ Suspend(p, IF near /\ ~NothingPending(storageCache)
                     THEN [c EXCEPT !.pc = "flushGet", !.ret = "addCategoryTime"]
                     ELSE [c EXCEPT !.pc = "getCategoryActiveState"])
       /\ UNCHANGED <<coordination, categories, usage, activeState, storageCache, now,
                      lastDateKey, alarmsFired, last, accepted>>

\* The flush timer fires: flushPendingTimeUpdates runs to its read.
TimerFires ==
    /\ calls[Timer].pc = "idle"
    /\ ~NothingPending(storageCache)
    /\ Suspend(Timer, [IdleCall EXCEPT !.pc = "flushGet", !.ret = "timer"])
    /\ UNCHANGED <<coordination, categories, usage, activeState, storageCache, now,
                   lastDateKey, alarmsFired, last, accepted>>

\* flushPendingTimeUpdates has read the usage: it adds the pending entries
\* and writes.
ResumeFlushGet(p) ==
    LET c == calls[p]
    IN /\ c.pc = "flushGet"
       /\ Suspend(p, IF ~NothingPending(storageCache)
                     THEN [c EXCEPT !.pc = "flushSet",
                                    !.snap = FlushMerge(usage,
                                                 storageCache.pendingTimeUpdates,
                                                 storageCache.pendingDomainUpdates)]
                     ELSE AfterFlush(c))
       /\ UNCHANGED <<coordination, categories, usage, activeState, storageCache, now,
                      lastDateKey, alarmsFired, last, accepted>>

\* The write of flushPendingTimeUpdates is done and the cache is set, the
\* pending maps are left as they are.
ResumeFlushSetKeepingPending(p) ==
    LET c == calls[p]
    IN /\ c.pc = "flushSet"
       /\ usage' = c.snap
       /\ storageCache' = [storageCache EXCEPT !.usage = CacheOf(c.snap),
                                               !.usageLoaded = TRUE,
                                               !.lastUsageWrite = now]
       /\ Suspend(p, AfterFlush(c))
       /\ UNCHANGED <<coordination, categories, activeState, now, lastDateKey, alarmsFired,
                      last, accepted>>

\* The write of flushPendingTimeUpdates is done: the cache is set and the
\* pending map cleared.
ResumeFlushSet(p) ==
    LET c == calls[p]
    IN /\ c.pc = "flushSet"
       /\ usage' = c.snap
       /\ storageCache' = [usage |-> CacheOf(c.snap), usageLoaded |-> TRUE,
                           lastUsageWrite |-> now,
                           pendingTimeUpdates |-> NoPending,
                           pendingDomainUpdates |-> NoPending]
       /\ Suspend(p, AfterFlush(c))
       /\ UNCHANGED <<coordination, categories, activeState, now, lastDateKey, alarmsFired,
                      last, accepted>>

\* Check 3 and Check 4 of canAccessCategory, made with the usage and the
\* ActiveState the call has read.
PassesLimits(category, usageNow, state) ==
    LET completedSessions == CompletedSessions(usageNow.sessions)
        totalSessionsUsed == completedSessions + (IF state.inSession THEN 1 ELSE 0)
    IN /\ ~(Truthy(category.dailyLimit) /\ usageNow.totalTime >= category.dailyLimit)
       /\ ~(Truthy(category.sessionCount)
            /\ totalSessionsUsed >= category.sessionCount /\ ~state.inSession)

\* canAccessCategory returns, having passed Check 1 and Check 2 or not:
\* startSession goes on to its getCategoryActiveState when access is
\* allowed; addEffectiveTime and handleMessage return.
AfterAccess(frame, passed) ==
    IF frame.caller = "startSession"
       /\ passed
       /\ PassesLimits(categories[frame.categoryKey],
                       [totalTime |-> frame.total, sessions |-> frame.sessions],
                       frame.state)
    THEN [IdleCall EXCEPT !.pc = "startSessionState",
                          !.categoryKey = frame.categoryKey]
    ELSE IdleCall

\* getCategoryActiveState of addEffectiveTime returns.
ResumeActiveState(p) ==
    LET c == calls[p]
        state == getCategoryActiveState(World, c.categoryKey)
        newSessionTime == state.sessionEffectiveTime + c.secondsToAdd
    IN /\ c.pc = "getCategoryActiveState"
       /\ Suspend(p, IF state.inSession
                     THEN CallUpdate(
                              [c EXCEPT !.state = [state EXCEPT
                                           !.sessionEffectiveTime = newSessionTime]],
                              [sessionEffectiveTime |-> newSessionTime],
                              "addEffectiveTime")
                     ELSE LimitChecks([c EXCEPT !.state = state]))
       /\ UNCHANGED <<coordination, categories, usage, activeState, storageCache, now,
                      lastDateKey, alarmsFired, last, accepted>>

\* getActiveState of updateCategoryActiveState returns: the new state is
\* merged into the map read and the map is written.
ResumeUpdateGet(p) ==
    LET c == calls[p]
    IN /\ c.pc = "updateGet"
       /\ Suspend(p, [c EXCEPT !.pc = "updateSet",
                               !.states = [activeState EXCEPT ![c.categoryKey] =
                                              Spread(@, c.upd)]])
       /\ UNCHANGED <<coordination, categories, usage, activeState, storageCache, now,
                      lastDateKey, alarmsFired, last, accepted>>

\* The write of updateCategoryActiveState is done.
ResumeUpdateSet(p) ==
    LET c == calls[p]
    IN /\ c.pc = "updateSet"
       /\ activeState' = c.states
       /\ Suspend(p, IF c.ret = "addEffectiveTime" THEN LimitChecks(c)
                     ELSE IF c.ret = "canAccessCategory" THEN AfterAccess(c, TRUE)
                     ELSE IdleCall)
       /\ UNCHANGED <<coordination, categories, usage, storageCache, now, lastDateKey,
                      alarmsFired, last, accepted>>

\* endCategorySession has read the usage: an open last record of today is
\* closed and the usage written; with none, endSession goes on to
\* updateCategoryActiveState.
ResumeEndSessionGet(p) ==
    LET c == calls[p]
    IN /\ c.pc = "endCategorySessionGet"
       /\ Suspend(p, IF LastSessionOpen(World, c.categoryKey, getTodayKey)
                     THEN [c EXCEPT !.pc = "endCategorySessionSet",
                                    !.snap = endCategorySession(World, c.categoryKey).usage]
                     ELSE CallUpdate(c, SessionUpdates(c.categoryKey, c.triggerRest),
                                     "endSession"))
       /\ UNCHANGED <<coordination, categories, usage, activeState, storageCache, now,
                      lastDateKey, alarmsFired, last, accepted>>

\* The write of endCategorySession is done.
ResumeEndSessionSet(p) ==
    LET c == calls[p]
    IN /\ c.pc = "endCategorySessionSet"
       /\ usage' = c.snap
       /\ Suspend(p, CallUpdate(c, SessionUpdates(c.categoryKey, c.triggerRest),
                                "endSession"))
       /\ UNCHANGED <<coordination, categories, activeState, storageCache, now, lastDateKey,
                      alarmsFired, last, accepted>>

\* getCategoryUsage of canAccessCategory returns.  The usage read decides
\* what startSession does next; addEffectiveTime and handleMessage pass the
\* answer on.
ResumeAccessUsage(p) ==
    LET c == calls[p]
        usageNow == getCategoryUsage(World, c.categoryKey)
    IN /\ c.pc = "canAccessUsage"
       /\ Suspend(p, IF c.caller = "startSession"
                     THEN [c EXCEPT !.pc = "canAccessState",
                                    !.total = usageNow.totalTime,
                                    !.sessions = usageNow.sessions]
                     ELSE [c EXCEPT !.pc = "canAccessState"])
       /\ UNCHANGED <<coordination, categories, usage, activeState, storageCache, now,
                      lastDateKey, alarmsFired, last, accepted>>

\* getCategoryActiveState of canAccessCategory returns: Check 1 and Check 2
\* are made, an expired rest is cleared, and the call goes on to Check 3.
ResumeAccessState(p) ==
    LET c == calls[p]
        category == categories[c.categoryKey]
        state == getCategoryActiveState(World, c.categoryKey)
        early == isInForbiddenPeriod(category.forbiddenPeriods)
                 \/ (state.inRest /\ Truthy(state.restEnd) /\ now < state.restEnd)
    IN /\ c.pc = "canAccessState"
       /\ Suspend(p, IF ClearsRest(category, state)
                     THEN CallUpdate([c EXCEPT !.state = state],
                                     [inRest |-> FALSE, restEnd |-> Null],
                                     "canAccessCategory")
                     ELSE AfterAccess([c EXCEPT !.state = state], ~early))
       /\ UNCHANGED <<coordination, categories, usage, activeState, storageCache, now,
                      lastDateKey, alarmsFired, last, accepted>>

OverlapConfig == Category(TRUE, 3, 2, 1, 1, << >>)

\* The category is fresh, or its session was started a moment ago.
InitOverlap ==
    /\ categories = [k \in CategoryKeys |-> OverlapConfig]
    /\ now = StartNow
    /\ lastDateKey = DateKeyOf(StartNow)
    /\ alarmsFired = 0
    /\ last = NoCall
    /\ calls = [p \in Handlers |-> IdleCall]
    /\ accepted = [k \in CategoryKeys |-> 0]
    /\ domainLimits = NoDomainLimits
    /\ activeTabsPerCategory = NoTabs
    /\ storageCache = [usage |-> NoCachedUsage, usageLoaded |-> FALSE,
                       lastUsageWrite |-> 0, pendingTimeUpdates |-> NoPending,
                       pendingDomainUpdates |-> NoPending]
    /\ \E inSession \in BOOLEAN :
          LET fresh == [usage |-> NoUsage,
                        activeState |-> [k \in CategoryKeys |-> DefaultActiveState],
                        cache |-> storageCache]
              opened == [usage |->
                            (getTodayKey :> [k \in CategoryKeys |->
                                [EmptyUsage EXCEPT !.sessions =
                                    <<[start |-> now, end |-> Null,
                                       duration |-> 0]>>]]),
                         activeState |-> [k \in CategoryKeys |->
                                [DefaultActiveState EXCEPT !.inSession = TRUE,
                                                           !.sessionStart = now]]]
          IN IF inSession
             THEN usage = opened.usage /\ activeState = opened.activeState
             ELSE usage = fresh.usage /\ activeState = fresh.activeState

NextOverlap ==
    \/ \E p \in Reporters, k \in CategoryKeys, s \in Reports : Receive(p, k, s)
    \/ \E p \in Reporters : ResumeCategoryUsage(p)
    \/ \E p \in Reporters : ResumeCachedUsage(p)
    \/ \E p \in Reporters : ResumeCategories(p)
    \/ TimerFires
    \/ \E p \in Handlers : ResumeFlushGet(p)
    \/ \E p \in Handlers : ResumeFlushSet(p)
    \/ \E p \in Reporters : ResumeActiveState(p)
    \/ \E p \in Reporters : ResumeUpdateGet(p)
    \/ \E p \in Reporters : ResumeUpdateSet(p)
    \/ \E p \in Reporters : ResumeEndSessionGet(p)
    \/ \E p \in Reporters : ResumeEndSessionSet(p)
    \/ \E p \in Reporters : ResumeAccessUsage(p)
    \/ \E p \in Reporters : ResumeAccessState(p)

SpecOverlap == InitOverlap /\ [][NextOverlap]_vars

(***************************************************************************)
(* Storage failures.  The chrome.storage call a handler is suspended on    *)
(* rejects: nothing is read or written, and what the handler did before    *)
(* the call stays done.                                                    *)
(***************************************************************************)
\* The answer of handleAddTime from its catch.
FailOpenAnswer == [allowed |-> TRUE, error |-> "storage"]

\* The call of handler p rejects.  A report handler answers from the catch
\* of handleAddTime; the flush of the timer ends with the rejection.
StorageFails(p) ==
    /\ calls[p].pc # "idle"
    /\ Suspend(p, IdleCall)
    /\ last' = IF p \in Reporters
               THEN [op |-> "handleAddTime", categoryKey |-> calls[p].categoryKey,
                     r |-> FailOpenAnswer, awaiting |-> calls[p].pc]
               ELSE [op |-> "flushPendingTimeUpdates", awaiting |-> calls[p].pc]
    /\ UNCHANGED <<coordination, categories, usage, activeState, storageCache,
                   now, lastDateKey, alarmsFired, accepted>>

\* One report is handled at a time, beside the flush of the timer.
OneReporter == {1}

NextFailing ==
    \/ \E p \in OneReporter, k \in CategoryKeys, s \in Reports : Receive(p, k, s)
    \/ \E p \in OneReporter : ResumeCategoryUsage(p)
    \/ \E p \in OneReporter : ResumeCachedUsage(p)
    \/ \E p \in OneReporter : ResumeCategories(p)
    \/ TimerFires
    \/ \E p \in OneReporter \cup {Timer} : ResumeFlushGet(p)
    \/ \E p \in OneReporter \cup {Timer} : ResumeFlushSet(p)
    \/ \E p \in OneReporter : ResumeActiveState(p)
    \/ \E p \in OneReporter : ResumeUpdateGet(p)
    \/ \E p \in OneReporter : ResumeUpdateSet(p)
    \/ \E p \in OneReporter : ResumeEndSessionGet(p)
    \/ \E p \in OneReporter : ResumeEndSessionSet(p)
    \/ \E p \in OneReporter : ResumeAccessUsage(p)
    \/ \E p \in OneReporter : ResumeAccessState(p)
    \/ \E p \in OneReporter \cup {Timer} : StorageFails(p)

SpecFailing == InitOverlap /\ [][NextFailing]_vars

(***************************************************************************)
(* Session handlers in flight.  handleMessage is answering an ADD_TIME or  *)
(* CAN_ACCESS message (handler 1) and a START_SESSION or END_SESSION       *)
(* message (handler 2) while an alarm is served (handler 3); the clock     *)
(* moves on while they are suspended.  The category is the only one.       *)
(***************************************************************************)
Adder == 1

Starter == 2

\* A CAN_ACCESS message arrives: canAccessCategory runs to getCategoryUsage.
ReceiveCanAccess(p, categoryKey) ==
    /\ calls[p].pc = "idle"
    /\ Suspend(p, IF HasCategory(categoryKey) /\ categories[categoryKey].enabled
                  THEN [IdleCall EXCEPT !.pc = "canAccessUsage",
                                        !.categoryKey = categoryKey,
                                        !.caller = "handleMessage"]
                  ELSE IdleCall)
    /\ UNCHANGED <<coordination, categories, usage, activeState, storageCache, now,
                   lastDateKey, alarmsFired, last, accepted>>

\* A START_SESSION message arrives: startSession calls canAccessCategory,
\* which runs to getCategoryUsage.
ReceiveStartSession(p, categoryKey) ==
    /\ calls[p].pc = "idle"
    /\ Len(getTodayUsage(World)[categoryKey].sessions) < MaxSessions
    /\ Suspend(p, IF HasCategory(categoryKey) /\ categories[categoryKey].enabled
                  THEN [IdleCall EXCEPT !.pc = "canAccessUsage",
                                        !.categoryKey = categoryKey,
                                        !.caller = "startSession"]
                  ELSE [IdleCall EXCEPT !.pc = "startSessionState",
                                        !.categoryKey = categoryKey])
    /\ UNCHANGED <<coordination, categories, usage, activeState, storageCache, now,
                   lastDateKey, alarmsFired, last, accepted>>

\* getCategoryActiveState of startSession returns: in session the call
\* returns alreadyActive, otherwise startCategorySession reads the usage.
ResumeStartState(p) ==
    LET c == calls[p]
        state == getCategoryActiveState(World, c.categoryKey)
    IN /\ c.pc = "startSessionState"
       /\ Suspend(p, IF state.inSession THEN IdleCall
                     ELSE [c EXCEPT !.pc = "startCategorySessionGet"])
       /\ UNCHANGED <<coordination, categories, usage, activeState, storageCache, now,
                      lastDateKey, alarmsFired, last, accepted>>

\* startCategorySession has read the usage: the new record is pushed and
\* the usage written.
ResumeStartGet(p) ==
    LET c == calls[p]
    IN /\ c.pc = "startCategorySessionGet"
       /\ Suspend(p, [c EXCEPT !.pc = "startCategorySessionSet",
                               !.snap = startCategorySession(World, c.categoryKey).usage])
       /\ UNCHANGED <<coordination, categories, usage, activeState, storageCache, now,
                      lastDateKey, alarmsFired, last, accepted>>

\* The write of startCategorySession is done: startSession calls
\* updateCategoryActiveState.
ResumeStartSet(p) ==
    LET c == calls[p]
    IN /\ c.pc = "startCategorySessionSet"
       /\ usage' = c.snap
       /\ Suspend(p, CallUpdate(c, [inSession |-> TRUE, sessionStart |-> now,
                                    sessionEffectiveTime |-> 0, inRest |-> FALSE,
                                    restEnd |-> Null],
                                "startSession"))
       /\ UNCHANGED <<coordination, categories, activeState, storageCache, now, lastDateKey,
                      alarmsFired, last, accepted>>

\* An END_SESSION message arrives: endSession calls endCategorySession,
\* which runs to its read of the usage.
ReceiveEndSession(p, categoryKey, triggerRest) ==
    /\ calls[p].pc = "idle"
    /\ Suspend(p, [IdleCall EXCEPT !.pc = "endCategorySessionGet",
                                   !.categoryKey = categoryKey,
                                   !.triggerRest = triggerRest])
    /\ UNCHANGED <<coordination, categories, usage, activeState, storageCache, now,
                   lastDateKey, alarmsFired, last, accepted>>

\* The checkRestPeriods alarm fires: with the categories read,
\* checkRestPeriods reads the clock and runs to the getCategoryActiveState
\* of the category.
CheckRestAlarm ==
    /\ calls[Alarm].pc = "idle"
    /\ \E k \in DOMAIN categories :
          Suspend(Alarm, [IdleCall EXCEPT !.pc = "checkRestState",
                                         !.categoryKey = k, !.at = now])
    /\ UNCHANGED <<coordination, categories, usage, activeState, storageCache, now,
                   lastDateKey, alarmsFired, last, accepted>>

\* getCategoryActiveState of checkRestPeriods returns: a rest that had ended
\* when the clock was read is cleared.
ResumeCheckRestState(p) ==
    LET c == calls[p]
        state == getCategoryActiveState(World, c.categoryKey)
    IN /\ c.pc = "checkRestState"
       /\ Suspend(p, IF state.inRest /\ Truthy(state.restEnd) /\ c.at >= state.restEnd
                     THEN CallUpdate(c, [inRest |-> FALSE, restEnd |-> Null],
                                     "checkRestPeriods")
                     ELSE IdleCall)
       /\ UNCHANGED <<coordination, categories, usage, activeState, storageCache, now,
                      lastDateKey, alarmsFired, last, accepted>>

\* The midnightReset alarm fires: handleMidnightReset sets lastDateKey and
\* performDailyReset runs to the read of its flush or, with nothing
\* pending, to its getActiveState.
MidnightAlarmFires ==
    /\ calls[Alarm].pc = "idle"
    /\ alarmsFired < getTodayKey
    /\ alarmsFired' = alarmsFired + 1
    /\ lastDateKey' = getTodayKey
    /\ Suspend(Alarm, IF ~NothingPending(storageCache)
                      THEN [IdleCall EXCEPT !.pc = "flushGet",
                                            !.ret = "performDailyReset"]
                      ELSE [IdleCall EXCEPT !.pc = "resetState"])
    /\ UNCHANGED <<coordination, categories, usage, activeState, storageCache, now, last,
                   accepted>>

\* getActiveState of performDailyReset returns: for the category in session
\* endCategorySessionForDate reads the usage; with none in session
\* clearActiveStates writes.
ResumeResetState(p) ==
    LET c == calls[p]
        inSession == {k \in CategoryKeys :
                        activeState[k].inSession /\ Truthy(activeState[k].sessionStart)}
    IN /\ c.pc = "resetState"
       /\ Suspend(p, IF inSession # {}
                     THEN [c EXCEPT !.pc = "resetEndGet",
                                    !.categoryKey = CHOOSE k \in inSession : TRUE]
                     ELSE [c EXCEPT !.pc = "clearSet"])
       /\ UNCHANGED <<coordination, categories, usage, activeState, storageCache, now,
                      lastDateKey, alarmsFired, last, accepted>>

\* endCategorySessionForDate has read the usage: an open last record of
\* yesterday is closed and the usage written.
ResumeResetEndGet(p) ==
    LET c == calls[p]
    IN /\ c.pc = "resetEndGet"
       /\ Suspend(p, IF LastSessionOpen(World, c.categoryKey, getYesterdayKey)
                     THEN [c EXCEPT !.pc = "resetEndSet",
                                    !.snap = endCategorySessionForDate(
                                                 World, c.categoryKey,
                                                 getYesterdayKey).usage]
                     ELSE [IdleCall EXCEPT !.pc = "clearSet"])
       /\ UNCHANGED <<coordination, categories, usage, activeState, storageCache, now,
                      lastDateKey, alarmsFired, last, accepted>>

\* The write of endCategorySessionForDate is done.
ResumeResetEndSet(p) ==
    LET c == calls[p]
    IN /\ c.pc = "resetEndSet"
       /\ usage' = c.snap
       /\ Suspend(p, [IdleCall EXCEPT !.pc = "clearSet"])
       /\ UNCHANGED <<coordination, categories, activeState, storageCache, now, lastDateKey,
                      alarmsFired, last, accepted>>

\* The write of clearActiveStates is done; performDailyReset drops the
\* cached usage and returns.
ResumeClearSet(p) ==
    LET c == calls[p]
    IN /\ c.pc = "clearSet"
       /\ Install([clearActiveStates(World) EXCEPT
                      !.cache.usage = NoCachedUsage,
                      !.cache.usageLoaded = FALSE])
       /\ Suspend(p, IdleCall)
       /\ UNCHANGED <<coordination, categories, now, lastDateKey, alarmsFired, last, accepted>>

\* The clock moves on while the handlers are where they are.
ClockMoves ==
    /\ TickMark
    /\ now' > now

\* A message or an alarm is taken up while fewer than MaxInFlight handlers
\* are suspended.
Arrives ==
    /\ Cardinality({p \in Handlers : calls[p].pc # "idle"}) < MaxInFlight
    /\ \/ \E k \in CategoryKeys, s \in Reports :
             accepted[k] < MaxInFlightTotal /\ Receive(Adder, k, s)
       \/ \E k \in CategoryKeys : ReceiveCanAccess(Adder, k)
       \/ \E k \in CategoryKeys : ReceiveStartSession(Starter, k)
       \/ \E k \in CategoryKeys, t \in BOOLEAN : ReceiveEndSession(Starter, k, t)
       \/ CheckRestAlarm
       \/ MidnightAlarmFires

NextSessions ==
    \/ Arrives
    \/ ClockMoves
    \/ \E p \in Handlers :
          \/ ResumeCategoryUsage(p)
          \/ ResumeCachedUsage(p)
          \/ ResumeCategories(p)
          \/ ResumeFlushGet(p)
          \/ ResumeFlushSet(p)
          \/ ResumeActiveState(p)
          \/ ResumeUpdateGet(p)
          \/ ResumeUpdateSet(p)
          \/ ResumeEndSessionGet(p)
          \/ ResumeEndSessionSet(p)
          \/ ResumeAccessUsage(p)
          \/ ResumeAccessState(p)
          \/ ResumeStartState(p)
          \/ ResumeStartGet(p)
          \/ ResumeStartSet(p)
          \/ ResumeCheckRestState(p)
          \/ ResumeResetState(p)
          \/ ResumeResetEndGet(p)
          \/ ResumeResetEndSet(p)
          \/ ResumeClearSet(p)

InitSessions ==
    /\ categories = [k \in CategoryKeys |-> OverlapConfig]
    /\ usage = NoUsage
    /\ activeState = [k \in CategoryKeys |-> DefaultActiveState]
    /\ storageCache = [usage |-> NoCachedUsage, usageLoaded |-> FALSE,
                       lastUsageWrite |-> 0, pendingTimeUpdates |-> NoPending,
                       pendingDomainUpdates |-> NoPending]
    /\ now = StartNow
    /\ lastDateKey = DateKeyOf(StartNow)
    /\ alarmsFired = 0
    /\ last = NoCall
    /\ calls = [p \in Handlers |-> IdleCall]
    /\ accepted = [k \in CategoryKeys |-> 0]
    /\ domainLimits = NoDomainLimits
    /\ activeTabsPerCategory = NoTabs

SpecSessions == InitSessions /\ [][NextSessions]_vars

(***************************************************************************)
(* Two categories.  The activeState map holds the states of all categories *)
(* under one storage key; the handlers of two categories overlap at its    *)
(* read and its write.                                                     *)
(***************************************************************************)
TwoCategories == {"video", "social"}

\* The messages of one tab are about video, those of the other about social.
ArrivesForTwo ==
    \/ \E s \in Reports :
          accepted["video"] < MaxInFlightTotal /\ Receive(Adder, "video", s)
    \/ ReceiveStartSession(Adder, "video")
    \/ \E t \in BOOLEAN : ReceiveEndSession(Adder, "video", t)
    \/ ReceiveStartSession(Starter, "social")
    \/ \E t \in BOOLEAN : ReceiveEndSession(Starter, "social", t)

NextTwo ==
    \/ ArrivesForTwo
    \/ \E p \in {Adder, Starter} :
          \/ ResumeCategoryUsage(p)
          \/ ResumeCategories(p)
          \/ ResumeFlushGet(p)
          \/ ResumeFlushSet(p)
          \/ ResumeActiveState(p)
          \/ ResumeUpdateGet(p)
          \/ ResumeUpdateSet(p)
          \/ ResumeEndSessionGet(p)
          \/ ResumeEndSessionSet(p)
          \/ ResumeAccessUsage(p)
          \/ ResumeAccessState(p)
          \/ ResumeStartState(p)
          \/ ResumeStartGet(p)
          \/ ResumeStartSet(p)

\* The day's record of two categories without usage.
EmptyDayOfTwo ==
    [d \in {DateKeyOf(StartNow)} |-> [k \in TwoCategories |-> EmptyUsage]]

\* Both categories are enabled and fresh; the day's record is empty and was
\* read into the cache a moment ago.
InitTwo ==
    /\ categories = [k \in TwoCategories |-> OverlapConfig]
    /\ usage = EmptyDayOfTwo
    /\ activeState = [k \in TwoCategories |-> DefaultActiveState]
    /\ storageCache = [usage |-> CacheOf(EmptyDayOfTwo), usageLoaded |-> TRUE,
                       lastUsageWrite |-> StartNow, pendingTimeUpdates |-> NoPending,
                       pendingDomainUpdates |-> NoPending]
    /\ now = StartNow
    /\ lastDateKey = DateKeyOf(StartNow)
    /\ alarmsFired = 0
    /\ last = NoCall
    /\ calls = [p \in Handlers |-> IdleCall]
    /\ accepted = [k \in TwoCategories |-> 0]
    /\ domainLimits = NoDomainLimits
    /\ activeTabsPerCategory = NoTabs

SpecTwo == InitTwo /\ [][NextTwo]_vars

(***************************************************************************)
(* One rest period.  The category is in its rest when the run begins and   *)
(* no message starts another: the checkRestPeriods alarm, CAN_ACCESS and   *)
(* END_SESSION without a rest overlap at the activeState map while the     *)
(* clock passes restEnd.                                                   *)
(***************************************************************************)
\* The write of checkRestPeriods' updateCategoryActiveState is done: the key
\* is pushed to endedRests and handleCheckRestPeriods sends
\* REST_PERIODS_ENDED.  `again` tells that the alarm has sent it before.
ResumeCheckRestSet(p) ==
    LET c == calls[p]
    IN /\ c.pc = "updateSet"
       /\ c.ret = "checkRestPeriods"
       /\ activeState' = c.states
       /\ last' = [op |-> "checkRestPeriods", r |-> {c.categoryKey},
                   again |-> last.op = "checkRestPeriods"]
       /\ Suspend(p, IdleCall)
       /\ UNCHANGED <<coordination, categories, usage, storageCache, now, lastDateKey,
                      alarmsFired, accepted>>

\* The writes of updateCategoryActiveState for endSession and
\* canAccessCategory.
ResumeOtherUpdateSet(p) ==
    /\ calls[p].ret # "checkRestPeriods"
    /\ ResumeUpdateSet(p)

ArrivesInRest ==
    \/ \E k \in CategoryKeys : ReceiveCanAccess(Adder, k)
    \/ \E k \in CategoryKeys : ReceiveEndSession(Starter, k, FALSE)
    \/ CheckRestAlarm

NextRestEnds ==
    \/ ArrivesInRest
    \/ ClockMoves
    \/ \E p \in Handlers :
          \/ ResumeAccessUsage(p)
          \/ ResumeAccessState(p)
          \/ ResumeEndSessionGet(p)
          \/ ResumeCheckRestState(p)
          \/ ResumeUpdateGet(p)
          \/ ResumeOtherUpdateSet(p)
          \/ ResumeCheckRestSet(p)

\* endSession(categoryKey, true) has just put the category to rest.
InitRestEnds ==
    /\ categories = [k \in CategoryKeys |-> OverlapConfig]
    /\ usage = NoUsage
    /\ activeState =
          [k \in CategoryKeys |->
              [DefaultActiveState EXCEPT
                  !.inRest = TRUE,
                  !.restEnd = StartNow + OverlapConfig.restDuration * MsPerSecond]]
    /\ storageCache = [usage |-> NoCachedUsage, usageLoaded |-> FALSE,
                       lastUsageWrite |-> 0, pendingTimeUpdates |-> NoPending,
                       pendingDomainUpdates |-> NoPending]
    /\ now = StartNow
    /\ lastDateKey = DateKeyOf(StartNow)
    /\ alarmsFired = 0
    /\ last = NoCall
    /\ calls = [p \in Handlers |-> IdleCall]
    /\ accepted = [k \in CategoryKeys |-> 0]
    /\ domainLimits = NoDomainLimits
    /\ activeTabsPerCategory = NoTabs

SpecRestEnds == InitRestEnds /\ [][NextRestEnds]_vars

\* Time advances and the periodic alarm keeps firing: the clock moves on,
\* the alarm is delivered and its handler is resumed at each of its awaits.
FairRestEnds ==
    /\ SpecRestEnds
    /\ WF_vars(ClockMoves)
    /\ WF_vars(CheckRestAlarm)
    /\ WF_vars(ResumeCheckRestState(Alarm))
    /\ WF_vars(ResumeUpdateGet(Alarm))
    /\ WF_vars(ResumeCheckRestSet(Alarm))

(***************************************************************************)
(* Properties.  The formulas read the call of the last step from `last`.   *)
(***************************************************************************)
Merged(k) == getCategoryUsage(World, k).totalTime

Limited(k) == HasCategory(k) /\ categories[k].enabled

ReasonOf(r) == IF "reason" \in DOMAIN r THEN r.reason ELSE "none"

\* The last step was a call of addEffectiveTime for an enabled category.
Added == last.op = "addEffectiveTime" /\ Limited(last.categoryKey)

LastCategory == categories[last.categoryKey]

LastState == activeState[last.categoryKey]

\* C1: for every enabled category with a daily limit L > 0, after any sequence
\* of addEffectiveTime calls with positive seconds, each run to completion
\* before the next, the merged total of the day (committed + pending) is at
\* most L, also when one report is larger than the headroom left.
CapInvariant ==
    \A k \in CategoryKeys :
        (Limited(k) /\ categories[k].dailyLimit # Null /\ categories[k].dailyLimit > 0)
        => Merged(k) <= categories[k].dailyLimit

\* A report larger than the headroom has just been added in part, and the
\* merged total stands at the limit.
CapInvariantWitness ==
    /\ Added
    /\ Truthy(LastCategory.dailyLimit)
    /\ last.timeAdded > 0
    /\ last.seconds > last.timeAdded
    /\ Merged(last.categoryKey) = LastCategory.dailyLimit

\* The call of the last step found the merged total T under the limit L and
\* reported more than L - T, and adding L - T reaches no session limit.
CappedCall ==
    /\ Added
    /\ Truthy(LastCategory.dailyLimit)
    /\ last.pre.totalTime < LastCategory.dailyLimit
    /\ last.seconds > LastCategory.dailyLimit - last.pre.totalTime
    /\ ~(/\ last.wasInSession
         /\ Truthy(LastCategory.sessionDuration)
         /\ last.pre.sessionEffectiveTime
                + (LastCategory.dailyLimit - last.pre.totalTime)
            >= LastCategory.sessionDuration)

\* C4: with a daily limit L, a merged total T < L and no session limit reached
\* by the call, addEffectiveTime(seconds) with seconds > L - T adds exactly
\* L - T, leaves the merged total at L and answers daily_limit_reached.
ExactCappedAdd ==
    CappedCall =>
        /\ last.timeAdded = LastCategory.dailyLimit - last.pre.totalTime
        /\ Merged(last.categoryKey) = LastCategory.dailyLimit
        /\ ~last.r.allowed
        /\ ReasonOf(last.r) = "daily_limit_reached"
        /\ last.r.totalTime = LastCategory.dailyLimit

ExactCappedAddWitness ==
    /\ CappedCall
    /\ last.pre.totalTime > 0
    /\ last.timeAdded = 1
    /\ last.seconds = 2

\* No Session record of the category is open (end = null), on any day.
NoOpenRecord(k) ==
    \A d \in DOMAIN usage :
        \A i \in 1..Len(usage[d][k].sessions) : Truthy(usage[d][k].sessions[i].end)

\* The call of the last step was made in session and brought the session
\* time to the session duration or past it.
SessionReached ==
    /\ Added
    /\ last.wasInSession
    /\ Truthy(LastCategory.sessionDuration)
    /\ last.pre.sessionEffectiveTime + last.timeAdded >= LastCategory.sessionDuration

\* C5: after an addEffectiveTime call the session time of a category that is
\* in session does not exceed sessionDuration, and a call that brings the
\* session time to sessionDuration or past it closes the session in that same
\* call: inSession is false and the open Session record has an end.
SessionCapInvariant ==
    /\ \A k \in CategoryKeys :
          (Limited(k) /\ Truthy(categories[k].sessionDuration)
           /\ activeState[k].inSession)
          => activeState[k].sessionEffectiveTime <= categories[k].sessionDuration
    /\ SessionReached =>
          /\ ~LastState.inSession
          /\ NoOpenRecord(last.categoryKey)

\* The call of the last step was made in session with the session time under
\* the session duration, the report carries it past the duration, and the
\* daily limit is not reached by the whole report.
PastSessionCall ==
    /\ Added
    /\ last.wasInSession
    /\ Truthy(LastCategory.sessionDuration)
    /\ last.pre.sessionEffectiveTime < LastCategory.sessionDuration
    /\ last.pre.sessionEffectiveTime + last.seconds > LastCategory.sessionDuration
    /\ Truthy(LastCategory.dailyLimit)
    /\ last.pre.totalTime + last.seconds < LastCategory.dailyLimit

\* C6 as stated: a report that would carry the session time past
\* sessionDuration, the daily limit being far, is capped to what is left of
\* the session: the total and the session time grow by
\* sessionDuration - sessionEffectiveTime and the reason is
\* session_limit_reached.
SessionCappedAdd ==
    PastSessionCall =>
        /\ last.timeAdded
              = LastCategory.sessionDuration - last.pre.sessionEffectiveTime
        /\ Merged(last.categoryKey)
              = last.pre.totalTime + last.timeAdded
        /\ LastState.sessionEffectiveTime = LastCategory.sessionDuration
        /\ ReasonOf(last.r) = "session_limit_reached"

\* C6 amended: such a report is added whole (only the daily headroom caps
\* it): the total and the session time grow by the reported seconds, the
\* session is closed in the same call and the reason is session_limit_reached.
SessionUncappedAdd ==
    PastSessionCall =>
        /\ last.timeAdded = last.seconds
        /\ Merged(last.categoryKey) = last.pre.totalTime + last.seconds
        /\ LastState.sessionEffectiveTime
              = last.pre.sessionEffectiveTime + last.seconds
        /\ LastState.sessionEffectiveTime > LastCategory.sessionDuration
        /\ ~LastState.inSession
        /\ ReasonOf(last.r) = "session_limit_reached"
        /\ last.r.sessionEffectiveTime = LastState.sessionEffectiveTime

SessionUncappedAddWitness ==
    /\ PastSessionCall
    /\ last.pre.sessionEffectiveTime = 1
    /\ last.seconds = 2
    /\ LastState.sessionEffectiveTime = 3

\* The report of the last step made both the session time reach the session
\* duration, in session, and the day's total reach the daily limit.
BothReached ==
    /\ SessionReached
    /\ Truthy(LastCategory.dailyLimit)
    /\ last.pre.totalTime + last.timeAdded >= LastCategory.dailyLimit

\* C7: when one report makes both sessionEffectiveTime >= sessionDuration, in
\* session, and totalTime >= dailyLimit, addEffectiveTime answers
\* session_limit_reached, not daily_limit_reached, and ends the session
\* exactly once.
TerminalPriority ==
    BothReached =>
        /\ ReasonOf(last.r) = "session_limit_reached"
        /\ Len(last.ended) = 1
        /\ ~LastState.inSession

TerminalPriorityWitness ==
    /\ BothReached
    /\ Merged(last.categoryKey) = LastCategory.dailyLimit
    /\ last.timeAdded > 0

\* C8: in every session_limit_reached answer of addEffectiveTime, restStarted
\* is true exactly when the call started a rest (inRest is true with restEnd
\* set afterwards), which is exactly when restDuration is set and > 0.
TruthfulRestStarted ==
    (Added /\ ReasonOf(last.r) = "session_limit_reached") =>
        /\ last.r.restStarted
              <=> (LastState.inRest /\ Truthy(LastState.restEnd))
        /\ last.r.restStarted <=> Truthy(LastCategory.restDuration)

\* The seconds of the day committed to storage.
Committed(k) == getTodayUsage(World)[k].totalTime

\* The seconds reported and not yet committed.
Pending(k) == PendingOf(storageCache.pendingTimeUpdates, k)

\* C2: when two addEffectiveTime calls for one category are in flight at once
\* and interleave at their storage reads and writes, the merged total
\* (committed + pending) still never exceeds the daily limit.
CapUnderOverlap ==
    \A k \in CategoryKeys :
        (Limited(k) /\ Truthy(categories[k].dailyLimit))
        => Committed(k) + Pending(k) <= categories[k].dailyLimit

\* C3: committed totalTime + pending accrual equals the sum of the seconds
\* accepted by addCategoryTime that day, for every interleaving of
\* addCategoryTime with flushPendingTimeUpdates: no accepted second is
\* dropped and none is counted twice.
AccrualConservation ==
    \A k \in CategoryKeys : Committed(k) + Pending(k) = accepted[k]


\* C9: addEffectiveTime(categoryKey, seconds) with seconds <= 0 returns
\* allowed = true and changes nothing: the merged total, the pending
\* accrual, the session time, inSession and inRest and the session log are
\* as before; no session is ended.
NonPositiveReportIsNoOp ==
    [][\A k \in CategoryKeys, s \in AnyReports :
          (s <= 0 /\ Limited(k) /\ Report(k, s)) =>
              /\ last'.r.allowed
              /\ Len(last'.ended) = 0
              /\ usage' = usage
              /\ activeState' = activeState
              /\ storageCache'.pendingTimeUpdates = storageCache.pendingTimeUpdates
                 \/ /\ PendingOf(storageCache'.pendingTimeUpdates, k) = 0
                    /\ PendingOf(storageCache.pendingTimeUpdates, k) = 0]_vars

\* The four denial conditions of canAccessCategory, of the state the call
\* is made in.
Forbidden(k) == isInForbiddenPeriod(categories[k].forbiddenPeriods)

Resting(k) ==
    /\ activeState[k].inRest
    /\ activeState[k].restEnd # Null
    /\ activeState[k].restEnd > now

DailyReached(k) ==
    Truthy(categories[k].dailyLimit) /\ Merged(k) >= categories[k].dailyLimit

SessionsExhausted(k) ==
    /\ Truthy(categories[k].sessionCount)
    /\ ~activeState[k].inSession
    /\ CompletedSessions(getTodayUsage(World)[k].sessions) >= categories[k].sessionCount

\* C10: for an enabled category canAccessCategory answers with the first
\* denial that holds in the order forbidden_period, rest_period (restEnd in
\* the future), daily_limit (totalTime >= dailyLimit), sessions_exhausted, and
\* with allowed = true only when none of the four holds.
DenialPriority ==
    [][\A k \in CategoryKeys :
          (CanAccess(k) /\ Limited(k)) =>
              /\ Forbidden(k) => ReasonOf(last'.r) = "forbidden_period"
              /\ (~Forbidden(k) /\ Resting(k)) => ReasonOf(last'.r) = "rest_period"
              /\ (~Forbidden(k) /\ ~Resting(k) /\ DailyReached(k))
                    => ReasonOf(last'.r) = "daily_limit"
              /\ (~Forbidden(k) /\ ~Resting(k) /\ ~DailyReached(k)
                  /\ SessionsExhausted(k))
                    => ReasonOf(last'.r) = "sessions_exhausted"
              /\ last'.r.allowed
                    <=> ~(Forbidden(k) \/ Resting(k) \/ DailyReached(k)
                          \/ SessionsExhausted(k))]_vars

\* canAccessCategory has just denied for the forbidden period while the
\* category is also resting.
DenialPriorityWitness ==
    /\ last.op = "canAccessCategory"
    /\ Limited(last.categoryKey)
    /\ ReasonOf(last.r) = "forbidden_period"
    /\ Resting(last.categoryKey)

\* C11: for a category key that is unknown or whose enabled flag is false,
\* canAccessCategory returns allowed = true with hasLimits = false and
\* addEffectiveTime returns allowed = true, and neither changes the totals,
\* the pending accrual, the ActiveState or the session log, whatever the
\* usage, the time of day and the rest state are.
UnlimitedPassThrough ==
    [][\A k \in CategoryKeys :
          ~Limited(k) =>
              /\ CanAccess(k) =>
                    /\ last'.r = [allowed |-> TRUE, hasLimits |-> FALSE]
                    /\ UNCHANGED <<usage, activeState, storageCache>>
              /\ \A s \in Reports :
                    Report(k, s) =>
                       /\ last'.r = [allowed |-> TRUE]
                       /\ UNCHANGED <<usage, activeState, storageCache>>]_vars

\* A report has just been answered for a category that was switched off
\* while it was in session with time on the day's record.
UnlimitedPassThroughWitness ==
    /\ last.op = "addEffectiveTime"
    /\ HasCategory(last.categoryKey)
    /\ ~LastCategory.enabled
    /\ Merged(last.categoryKey) > 0
    /\ LastState.inSession
    /\ last.r = [allowed |-> TRUE]

\* The minute of the day, and a time of day in minutes.
MinuteOfDay == (now % DayMs) \div MsPerMinute

Minutes(hh, mm) == hh * MinutesPerHour + mm

\* The rule of the claim for one period.
Blocks(period, m) ==
    LET start == Minutes(period.start[1], period.start[2])
        end == Minutes(period.end[1], period.end[2])
    IN IF start > end THEN m >= start \/ m < end
                      ELSE start <= m /\ m < end

\* C12: a minute of the day m is forbidden by a period with start > end iff
\* m >= start or m < end, and by a period with start <= end iff
\* start <= m < end: {22:00, 08:00} blocks at 23:30 and at 02:00 and allows
\* at 10:00 and at 08:00 sharp.
ForbiddenWraparound ==
    (last.op = "canAccessCategory" /\ Limited(last.categoryKey)) =>
        LET fp == LastCategory.forbiddenPeriods
            denied == ReasonOf(last.r) = "forbidden_period"
        IN /\ denied <=> \E i \in 1..Len(fp) : Blocks(fp[i], MinuteOfDay)
           /\ (fp = <<Overnight>>
               /\ MinuteOfDay \in {Minutes(23, 30), Minutes(2, 0)}) => denied
           /\ (fp = <<Overnight>>
               /\ MinuteOfDay \in {Minutes(10, 0), Minutes(8, 0)}) => ~denied

\* Access has just been denied at 02:00 by the period {22:00, 08:00}.
ForbiddenWraparoundWitness ==
    /\ last.op = "canAccessCategory"
    /\ LastCategory.forbiddenPeriods = <<Overnight>>
    /\ MinuteOfDay = Minutes(2, 0)
    /\ ReasonOf(last.r) = "forbidden_period"

\* canAccessCategory has just answered for an enabled category that has
\* sessionCount = N, N completed sessions today and no session running.
ExhaustedCall ==
    /\ last.op = "canAccessCategory"
    /\ Limited(last.categoryKey)
    /\ Truthy(LastCategory.sessionCount)
    /\ ~LastState.inSession
    /\ CompletedSessions(getTodayUsage(World)[last.categoryKey].sessions)
          = LastCategory.sessionCount

\* C13 as stated: with sessionCount = N, N completed sessions today and no
\* session running, canAccessCategory answers sessions_exhausted, whatever
\* the daily total and the time of day.
ExhaustedWhatever ==
    ExhaustedCall => ReasonOf(last.r) = "sessions_exhausted"

\* C13 amended: in that case canAccessCategory always denies, and the reason
\* is sessions_exhausted (with sessionsUsed = sessionsTotal = N) unless a
\* forbidden period is active, a rest is running or the daily total has
\* reached dailyLimit.
ExhaustedUnlessEarlierDenial ==
    ExhaustedCall =>
        /\ ~last.r.allowed
        /\ (/\ ~Forbidden(last.categoryKey)
            /\ ~Resting(last.categoryKey)
            /\ ~DailyReached(last.categoryKey))
           => /\ ReasonOf(last.r) = "sessions_exhausted"
              /\ last.r.sessionsUsed = LastCategory.sessionCount
              /\ last.r.sessionsTotal = LastCategory.sessionCount

\* sessions_exhausted has just been answered with time on the day's record.
ExhaustedUnlessEarlierDenialWitness ==
    /\ ExhaustedCall
    /\ ReasonOf(last.r) = "sessions_exhausted"
    /\ Merged(last.categoryKey) > 0

\* canAccessCategory has just answered for an enabled category, outside its
\* forbidden periods, that it found with inRest set.
RestCall ==
    /\ last.op = "canAccessCategory"
    /\ Limited(last.categoryKey)
    /\ ~Forbidden(last.categoryKey)
    /\ last.pre.inRest
    /\ last.pre.restEnd # Null

\* C14: while inRest is true and now < restEnd (no forbidden period being
\* active), canAccessCategory answers rest_period with
\* restRemaining = ceil((restEnd - now) / 1000) and leaves the rest as it is;
\* the first call at or after restEnd sets inRest = false and restEnd = null
\* and goes on to the daily and session-count checks.
RestDenialAndClearing ==
    RestCall =>
        IF now < last.pre.restEnd
        THEN /\ ReasonOf(last.r) = "rest_period"
             /\ (last.r.restRemaining - 1) * MsPerSecond < last.pre.restEnd - now
             /\ last.pre.restEnd - now <= last.r.restRemaining * MsPerSecond
             /\ LastState = last.pre
        ELSE /\ ~LastState.inRest
             /\ LastState.restEnd = Null
             /\ ReasonOf(last.r) =
                   IF DailyReached(last.categoryKey) THEN "daily_limit"
                   ELSE IF SessionsExhausted(last.categoryKey)
                   THEN "sessions_exhausted"
                   ELSE "none"
             /\ last.r.allowed <=> ReasonOf(last.r) = "none"

\* A call made at restEnd has just cleared the rest.
RestDenialAndClearingWitness ==
    /\ RestCall
    /\ now = last.pre.restEnd
    /\ ~LastState.inRest
    /\ LastState.restEnd = Null

StartWhileActive ==
    [][\A k \in CategoryKeys :
          (StartSession(k) /\ Limited(k) /\ activeState[k].inSession) =>
              /\ last'.r = [success |-> TRUE, alreadyActive |-> TRUE]
              /\ usage' = usage
              /\ activeState' = activeState]_vars

\* C16 amended: startSession for a category that is in session changes
\* neither the session log nor the ActiveState; it answers success with
\* alreadyActive when canAccessCategory allows access, and success = false
\* with the denial of canAccessCategory otherwise.
StartWhileActiveUnlessDenied ==
    [][\A k \in CategoryKeys :
          (StartSession(k) /\ Limited(k) /\ activeState[k].inSession) =>
              /\ usage' = usage
              /\ activeState' = activeState
              /\ storageCache' = storageCache
              /\ IF Forbidden(k) \/ Resting(k) \/ DailyReached(k)
                 THEN /\ ~last'.r.success
                      /\ ~last'.r.allowed
                      /\ ReasonOf(last'.r) = DenialReason(categories[k],
                                                 getCategoryUsage(World, k),
                                                 activeState[k])
                 ELSE last'.r = [success |-> TRUE, alreadyActive |-> TRUE]]_vars

\* startSession has just answered alreadyActive for a session with effective
\* time on it.
StartWhileActiveUnlessDeniedWitness ==
    /\ last.op = "startSession"
    /\ Limited(last.categoryKey)
    /\ last.r = [success |-> TRUE, alreadyActive |-> TRUE]
    /\ LastState.inSession
    /\ LastState.sessionEffectiveTime > 0

\* The Session records of the category that are open (end = null), as
\* pairs of a day and a place in that day's list.
OpenRecords(k) ==
    {di \in UNION {{<<d, i>> : i \in 1..Len(usage[d][k].sessions)} : d \in DOMAIN usage} :
        ~Truthy(usage[di[1]][k].sessions[di[2]].end)}

\* C17: in every reachable state a category has at most one open Session
\* record, across startSession, endSession, addEffectiveTime and the daily
\* rollover, calls made around midnight included.
OneOpenRecord ==
    \A k \in CategoryKeys : Cardinality(OpenRecords(k)) <= 1

\* C20: when the daily rollover has completed, no category has inSession or
\* inRest set and no Session record of any category is open, whether the
\* open session was started before or after midnight.
CleanAfterRollover ==
    last.op = "performDailyReset" =>
        \A k \in CategoryKeys :
            /\ ~activeState[k].inSession
            /\ ~activeState[k].inRest
            /\ NoOpenRecord(k)

\* C19: endSession(categoryKey, triggerRest) sets inSession = false and
\* sessionStart = null and closes the open Session record; it sets
\* inRest = true with restEnd = now + restDuration exactly when triggerRest is
\* true and the category has a restDuration, and inRest is false afterwards
\* otherwise; the returned restStarted says whether the rest was started.
EndSessionRestRule ==
    [][\A k \in CategoryKeys, t \in BOOLEAN :
          (EndSession(k, t) /\ HasCategory(k)) =>
              LET started == t /\ Truthy(categories[k].restDuration)
              IN /\ ~activeState'[k].inSession
                 /\ activeState'[k].sessionStart = Null
                 /\ NoOpenRecord(k)'
                 /\ activeState'[k].inRest = started
                 /\ started => activeState'[k].restEnd
                                  = now + categories[k].restDuration * MsPerSecond
                 /\ last'.r.restStarted = started]_vars

\* C18: inSession and inRest are never both true in the stored ActiveState
\* of a category, for every sequence and interleaving of startSession,
\* endSession, addEffectiveTime, canAccessCategory, checkRestPeriods and the
\* daily rollover.
SessionExcludesRest ==
    \A k \in CategoryKeys : ~(activeState[k].inSession /\ activeState[k].inRest)

\* A rest has been started while a handler is about to write back a copy
\* of the ActiveState it read when the category was in session.
SessionExcludesRestWitness ==
    \E k \in CategoryKeys, p \in Handlers :
        /\ activeState[k].inRest
        /\ calls[p].pc = "updateSet"
        /\ calls[p].states[k].inSession

\* The last Session record of the category in the record of the day before
\* is closed by this step at the present time, with its duration in whole
\* seconds.
ClosedInPreviousDay(k) ==
    /\ getYesterdayKey \in DOMAIN usage
    /\ LET before == usage[getYesterdayKey][k].sessions
           after == usage'[getYesterdayKey][k].sessions
           n == Len(before)
       IN /\ n > 0
          /\ Len(after) = n
          /\ ~Truthy(before[n].end)
          /\ after[n] = [start |-> before[n].start, end |-> now,
                          duration |-> (now - before[n].start) \div MsPerSecond]

\* C21: for every category that is in session when the rollover runs, the
\* open Session record is closed (end set, duration in whole seconds) in the
\* record of the previous calendar day, and the rollover creates or closes
\* no Session record in the record of the new day.
DanglingToPreviousDay ==
    [][(MidnightAlarm \/ checkDateChange) =>
          \A k \in CategoryKeys :
              /\ activeState[k].inSession =>
                    (ClosedInPreviousDay(k) /\ NoOpenRecord(k)')
              /\ DayOf(usage', getTodayKey)[k].sessions
                    = DayOf(usage, getTodayKey)[k].sessions]_vars

\* C22: the rollover run a second time in succession for the same day
\* transition (CHECK_DATE and then the midnightReset alarm) leaves the
\* stored usage and ActiveState as the first run left them: no session is
\* closed again and nothing is removed.
RolloverIdempotent ==
    [][(last.op = "performDailyReset" /\ (MidnightAlarm \/ checkDateChange)) =>
          UNCHANGED <<usage, activeState>>]_vars

\* The rollover has run twice in succession, and the first run flushed
\* pending seconds and closed the session of the day before.
RolloverIdempotentWitness ==
    /\ last.op = "performDailyReset"
    /\ last.after = "performDailyReset"
    /\ \E k \in CategoryKeys :
          /\ getYesterdayKey \in DOMAIN usage
          /\ getTodayKey \in DOMAIN usage
          /\ usage[getTodayKey][k].totalTime > 0
          /\ Len(usage[getYesterdayKey][k].sessions) > 0
          /\ usage[getYesterdayKey][k].sessions[1].end = now

\* C23: when the rollover has completed, the usage store holds no day
\* record older than the retention window of 31 days.
PrunedAfterRollover ==
    last.op = "performDailyReset" =>
        \A d \in DOMAIN usage : ~OlderThanRetention(d)

\* The call of the last step, for an enabled category, reached neither the
\* session-duration limit nor the daily limit: it ended no session.
WithinLimitsCall ==
    /\ Added
    /\ last.ended = << >>

\* C29: an addEffectiveTime call for an enabled category that reaches
\* neither the session-duration limit nor the daily limit returns
\* allowed = true with timeAdded, the capped amount it added, and the current
\* sessionEffectiveTime, also when the category is resting, in a forbidden
\* period or has its sessions exhausted.
AllowedWithinLimits ==
    WithinLimitsCall =>
        /\ last.r.allowed
        /\ last.r.timeAdded = last.timeAdded
        /\ last.r.timeAdded
              = CappedSeconds(LastCategory, last.pre.totalTime, last.seconds)
        /\ last.r.sessionEffectiveTime = LastState.sessionEffectiveTime

\* The answer to a report of a tab that does not hold the category.
SkippedAnswer == [allowed |-> TRUE, skipped |-> TRUE, reason |-> "not_active_tab"]

\* The step handles an ADD_TIME of a tab while another tab holds the category.
AddTimeOfOtherTab ==
    /\ last'.op = "handleAddTime"
    /\ last'.holder # NoTab
    /\ last'.holder # last'.tabId

\* The step accrues seconds of category k: in its total, in the total of a
\* domain or in the effective time of its session.
Accrues(k) ==
    \/ Merged(k)' > Merged(k)
    \/ \E dom \in Domains : DomainMerged(k, dom)' > DomainMerged(k, dom)
    \/ activeState'[k].sessionEffectiveTime > activeState[k].sessionEffectiveTime

\* C24: while one tab holds a category, every ADD_TIME of the other tab is
\* answered {allowed: true, skipped: true, reason: 'not_active_tab'} and
\* changes neither the usage (totalTime, byDomain), nor the pending seconds,
\* nor the ActiveState, nor the holder; seconds are accrued only by an
\* ADD_TIME of the tab that holds the category.
NoDoubleCounting ==
    [][/\ AddTimeOfOtherTab =>
             /\ last'.r = SkippedAnswer
             /\ UNCHANGED <<usage, storageCache, activeState, activeTabsPerCategory>>
       /\ \A k \in CategoryKeys :
             Accrues(k) =>
                /\ last'.op = "handleAddTime"
                /\ last'.categoryKey = k
                /\ last'.holder \in {NoTab, last'.tabId}
                /\ ActiveTabOf(k)' = last'.tabId]_vars

\* A tab reported seconds that were counted, and the report of the other
\* tab that followed was skipped.
NoDoubleCountingWitness ==
    /\ last.op = "handleAddTime"
    /\ last.holder \notin {NoTab, last.tabId}
    /\ last.r = SkippedAnswer
    /\ last.seconds > 0
    /\ Merged(last.categoryKey) > 0
    /\ DomainMerged(last.categoryKey, last.domain) > 0
    /\ activeState[last.categoryKey].sessionEffectiveTime > 0

\* The step handles a message of a tab while another tab holds the category.
MessageOfOtherTab(op) ==
    /\ last'.op = op
    /\ last'.holder # NoTab
    /\ last'.holder # last'.tabId

\* The holder of the category of the message was last active more than
\* the given number of seconds ago.
HolderSilentMoreThan(seconds) ==
    now - activeTabsPerCategory[last'.categoryKey].lastActivity
        > seconds * MsPerSecond

\* The sender of the message holds the category after the step, and the
\* answer says so.
TakesOver ==
    /\ last'.r.isActive
    /\ activeTabsPerCategory'[last'.categoryKey]
          = [tabId |-> last'.tabId, lastActivity |-> now]

\* The holder is as before the step, and the answer says isActive = false.
Refused ==
    /\ ~last'.r.isActive
    /\ UNCHANGED activeTabsPerCategory

\* C25: a tab other than the holder of a category takes over through
\* REGISTER_TAB exactly when the holder's lastActivity is more than 30
\* seconds old, and through REPORT_ACTIVITY with isActive = true exactly
\* when it is more than 10 seconds old; otherwise the holder is unchanged
\* and the answer says isActive = false, and an ADD_TIME of that tab that
\* follows is skipped.
StalenessTakeover ==
    [][/\ MessageOfOtherTab("handleRegisterTab") =>
             IF HolderSilentMoreThan(30) THEN TakesOver ELSE Refused
       /\ MessageOfOtherTab("handleReportActivity") =>
             IF last'.isActive /\ HolderSilentMoreThan(10)
             THEN TakesOver ELSE Refused
       /\ (/\ last.op \in {"handleRegisterTab", "handleReportActivity"}
           /\ last.holder \notin {NoTab, last.tabId}
           /\ ~last.r.isActive
           /\ last'.op = "handleAddTime"
           /\ last'.tabId = last.tabId
           /\ last'.categoryKey = last.categoryKey)
          => (last'.r = SkippedAnswer /\ ~last'.counted)]_vars

\* A tab has taken the category over with REPORT_ACTIVITY from a holder
\* that had counted seconds.
StalenessTakeoverWitness ==
    /\ last.op = "handleReportActivity"
    /\ last.holder \notin {NoTab, last.tabId}
    /\ last.r.isActive
    /\ ActiveTabOf(last.categoryKey) = last.tabId
    /\ Merged(last.categoryKey) > 0

\* Tab 2 holds a category, and its ADD_TIME, handled last, added seconds
\* to the total of the category.
OtherTabAccrues ==
    /\ last.op = "handleAddTime"
    /\ last.tabId = 2
    /\ last.counted
    /\ last.timeAdded > 0
    /\ Merged(last.categoryKey) = last.pre.totalTime + last.timeAdded
    /\ ActiveTabOf(last.categoryKey) = 2

\* C26: when the tab that holds a category stops sending messages without
\* unregistering, and no tab-closed event arrives, a second tab that keeps
\* sending REPORT_ACTIVITY with isActive = true and ADD_TIME eventually
\* holds the category and has its seconds added.
NoPermanentLockout == <>OtherTabAccrues

\* Tab 2 has its seconds added after tab 1, the holder, counted seconds of
\* its own and fell silent.
NoPermanentLockoutWitness ==
    /\ OtherTabAccrues
    /\ last.pre.totalTime > 0
    /\ DomainMerged(last.categoryKey, "a.example") > 0

\* The step handles an ADD_TIME that names a domain with a limit whose
\* usage today, committed and pending, has reached the limit.
AddTimeAtDomainLimit ==
    /\ last'.op = "handleAddTime"
    /\ last'.domain \in DOMAIN domainLimits
    /\ DomainMerged(last'.categoryKey, last'.domain)
          >= domainLimits[last'.domain].dailyLimit

\* The answer is the denial of the domain limit, and the step added nothing
\* and ended no session.
DeniedByDomainLimit ==
    /\ ~last'.r.allowed
    /\ last'.r.reason = "domain_limit"
    /\ UNCHANGED <<usage, storageCache, activeState>>

\* C27: an ADD_TIME for a domain that has a limit and whose usage today
\* (committed + pending) is at or over the limit is answered allowed = false
\* with reason domain_limit, adds nothing to the domain's total, the
\* category's totalTime or sessionEffectiveTime, and ends no session.
DomainLimitShortCircuits ==
    [][AddTimeAtDomainLimit => DeniedByDomainLimit]_vars

\* C27, for a report that is not skipped: an ADD_TIME for a domain at or
\* over its limit, sent by the tab that holds the category or while no tab
\* holds it, is answered allowed = false with reason domain_limit, adds
\* nothing and ends no session; the report of any other tab adds nothing
\* and ends no session either.
DomainLimitShortCircuitsHolder ==
    [][AddTimeAtDomainLimit =>
          /\ last'.holder \in {NoTab, last'.tabId} => DeniedByDomainLimit
          /\ UNCHANGED <<usage, storageCache, activeState>>]_vars

\* The holder's report for a domain at its limit was denied while the
\* category was in a session and seconds of the domain were pending.
DomainLimitWitness ==
    /\ last.op = "handleAddTime"
    /\ last.holder = last.tabId
    /\ ~last.r.allowed
    /\ last.r.reason = "domain_limit"
    /\ last.r.used >= last.r.limit
    /\ activeState[last.categoryKey].inSession
    /\ PendingOf(storageCache.pendingDomainUpdates,
                 <<last.categoryKey, last.domain>>) > 0

\* C30: for every category, the seconds of each of its domains today
\* (committed + pending byDomain), and their sum over the domains, never
\* exceed the category's totalTime today (committed + pending), also when a
\* report is capped by the daily limit.
DomainsWithinTotal ==
    \A k \in CategoryKeys :
        /\ \A dom \in Domains : DomainMerged(k, dom) <= Merged(k)
        /\ DomainMerged(k, "a.example") + DomainMerged(k, "b.example")
              <= Merged(k)

\* The handling of an ADD_TIME report ended last, with a storage call that
\* rejected.
ReportFailed == last.op = "handleAddTime" /\ "awaiting" \in DOMAIN last

\* C28: when a storage read or write fails while an ADD_TIME report is
\* handled, the answer has allowed = true, and the usage of the category as
\* it is read afterwards is committed + pending with every second accepted
\* from a report counted at most once.
FailOpenNoDrift ==
    /\ ReportFailed => (last.r.allowed /\ "error" \in DOMAIN last.r)
    /\ \A k \in CategoryKeys :
          /\ Merged(k) = Committed(k) + Pending(k)
          /\ Committed(k) + Pending(k) <= accepted[k]

\* The write of a flush that a report handler ran has failed: the report
\* was answered allowed = true and its seconds are still pending.
FailOpenNoDriftWitness ==
    /\ ReportFailed
    /\ last.awaiting = "flushSet"
    /\ last.r = FailOpenAnswer
    /\ Pending(last.categoryKey) > 0
    /\ Committed(last.categoryKey) + Pending(last.categoryKey)
          = accepted[last.categoryKey]

\* C31: when the background process is terminated and started again, the
\* total of every category after the restart (committed + pending) equals
\* its merged total before it: no second accepted earlier is lost.
NothingLostOnCrash ==
    [][Restart => \A k \in CategoryKeys : Merged(k)' = Merged(k)]_vars

\* The run of the rollover is past its flush: at getActiveState, at the
\* closing of a session or at clearActiveStates.
RolloverPastFlush ==
    calls[Alarm].pc \in {"resetState", "resetEndGet", "resetEndSet", "clearSet"}

\* Today's total of a category in chrome.storage.local.
StoredTotal(k) == DayOf(usage, getTodayKey)[k].totalTime

\* C32: within one run of the rollover the flush has completed before a
\* session is closed and before the ActiveState is cleared: when the run
\* goes on from its flush the pending maps are empty and the seconds that
\* were pending are in the store.
FlushBeforeRollover ==
    [][(~RolloverPastFlush /\ RolloverPastFlush') =>
          /\ NothingPending(storageCache')
          /\ \A k \in CategoryKeys :
                StoredTotal(k)' = StoredTotal(k) + Pending(k)]_vars

\* The total is at or over 95% of the cap.
AtNinetyFivePercent(total, cap) == Truthy(cap) /\ 100 * total >= 95 * cap

\* Nothing is pending in world w.
Flushed(w) ==
    /\ DOMAIN w.cache.pendingTimeUpdates = {}
    /\ DOMAIN w.cache.pendingDomainUpdates = {}

\* addCategoryTime, called in the present state, returns a total at or over
\* 95% of the daily limit with nothing pending and the total in the store,
\* and a total below it with the store behind by the pending seconds.
CategoryFlushedNearCap ==
    \A k \in CategoryKeys, s \in 0..MaxReport :
        HasCategory(k) =>
           LET out == addCategoryTime(World, k, s)
               stored == DayOf(out.w.usage, getTodayKey)[k].totalTime
           IN IF AtNinetyFivePercent(out.r.totalTime, categories[k].dailyLimit)
              THEN Flushed(out.w) /\ stored = out.r.totalTime
              ELSE stored + PendingOf(out.w.cache.pendingTimeUpdates, k)
                      = out.r.totalTime

\* The same for addDomainTime and the limit of the domain.
DomainFlushedNearCap ==
    \A k \in CategoryKeys, dom \in Domains, s \in Reports :
        LET out == addDomainTime(World, k, dom, s)
            stored == PendingOf(DayOf(out.w.usage, getTodayKey)[k].byDomain, dom)
            cap == IF HasDomainLimit(dom) THEN domainLimits[dom].dailyLimit
                   ELSE Null
        IN IF AtNinetyFivePercent(out.r, cap)
           THEN Flushed(out.w) /\ stored = out.r
           ELSE stored + PendingOf(out.w.cache.pendingDomainUpdates, <<k, dom>>)
                   = out.r

MinuteOfDayAt(t) == (t % DayMs) \div MsPerMinute

\* C34: whenever canAccessCategory denies with forbidden_period, the
\* nextAvailable it returns is a timestamp in the future at which the
\* category is inside none of its forbidden periods, also when periods
\* overlap or are adjacent (09:00-12:00 and 12:00-14:00).
NextAvailableEndsBlocking ==
    (last.op = "canAccessCategory" /\ ReasonOf(last.r) = "forbidden_period") =>
        LET fp == LastCategory.forbiddenPeriods
        IN /\ last.r.nextAvailable > now
           /\ ~\E i \in 1..Len(fp) :
                 Blocks(fp[i], MinuteOfDayAt(last.r.nextAvailable))

\* C35: for a domain with a DomainLimit D whose usage today (committed +
\* pending) is at or below D, no ADD_TIME report raises the usage above D,
\* also when the report is larger than the headroom of the domain.
DomainCap ==
    [][\A k \in CategoryKeys, dom \in DOMAIN domainLimits :
          (/\ last'.op = "handleAddTime"
           /\ DomainMerged(k, dom) <= domainLimits[dom].dailyLimit)
          => DomainMerged(k, dom)' <= domainLimits[dom].dailyLimit]_vars


\* The rollover runs at midnight right after the clock passed it: nothing was
\* handled since (the last step was the clock's, or a flush that found
\* nothing to write), and the new day has no usage record yet, so every
\* pending second was reported before midnight.
RolloverRightAtMidnight ==
    /\ now % DayMs = 0
    /\ last = NoCall
    /\ getTodayKey \notin DOMAIN usage
    /\ last'.op = "performDailyReset"

\* C36: seconds are charged to the day they were reported.  Seconds reported
\* before midnight and still pending at midnight are committed to the
\* previous day's record, so right after the rollover, and before any report
\* of the new day, every category's merged totalTime of the new day is 0 and
\* the previous day's record has gained the pending seconds.
ChargedToDayReported ==
    [][RolloverRightAtMidnight =>
         \A k \in CategoryKeys :
             /\ Merged(k)' = 0
             /\ DayOf(usage', getYesterdayKey)[k].totalTime
                  = DayOf(usage, getYesterdayKey)[k].totalTime + Pending(k)]_vars


\* C37: per-category isolation of ActiveState.  The write of the activeState
\* map that an operation on one category makes (startSession, endSession,
\* addEffectiveTime) leaves the persisted ActiveState of every other
\* category as it was, also when the operations of two categories overlap
\* at the read and the write of the map.
ActiveStateIsolated ==
    [][\A p \in Handlers :
          (calls[p].pc = "updateSet" /\ calls'[p].pc # "updateSet")
             => \A k \in (DOMAIN activeState) \ {calls[p].categoryKey} :
                   activeState'[k] = activeState[k]]_vars


\* C38: session count cap.  For every category with sessionCount N the
\* number of Session records, open or closed, in one day's usage record
\* never exceeds N, whatever the sequence and interleaving of startSession,
\* endSession, addEffectiveTime and the daily rollover.
SessionCountCap ==
    \A d \in DOMAIN usage, k \in DOMAIN categories :
       (categories[k].enabled /\ Truthy(categories[k].sessionCount))
          => Len(usage[d][k].sessions) <= categories[k].sessionCount


\* C39: ActiveState agrees with the session log.  With the handlers run one
\* after another no operation is in progress in any state: inSession is
\* true exactly when the category has an open Session record (end = null);
\* in particular a session ended after midnight and before the rollover has
\* run leaves no open record behind.
ActiveStateAgreesWithLog ==
    \A k \in CategoryKeys : activeState[k].inSession <=> OpenRecords(k) # {}


\* C40, the first half: a category that is in rest with restEnd set comes
\* out of it, inRest = false and restEnd = null, when time advances and the
\* checkRestPeriods alarm keeps firing.
RestEventuallyEnds ==
    \A k \in CategoryKeys :
       (activeState[k].inRest /\ Truthy(activeState[k].restEnd))
          ~> (~activeState[k].inRest /\ activeState[k].restEnd = Null)

\* C40: every rest period ends, and checkRestPeriods reports a given rest
\* period as ended at most once: with the one rest period of the run, the
\* alarm that reports an ended rest has not reported one before.
RestReportedOnce ==
    last.op = "checkRestPeriods" => ~last.again

====
